---------------------------- MODULE Spec2Model ----------------------------
(***************************************************************************)
(* A model of the bidirectional estimator (integrators/bdpt.cpp) and of    *)
(* the Metropolis sampler and renderer (integrators/mlt.cpp).              *)
(*                                                                         *)
(* Floating-point values are kept on a grid: a value in [0,1) is an        *)
(* integer k in 0..Q-1 standing for k/Q.  Iteration counters and indices   *)
(* are integers, as in the code.                                           *)
(***************************************************************************)
EXTENDS Integers, Sequences, FiniteSets, TLC

\* ------------------------------------------------------------------------
\* Bounds of the model
\* ------------------------------------------------------------------------

\* resolution of the grid of values in [0,1)
Q == 4
\* most sampler calls in one behaviour of SpecSampler
MaxCalls == 7
\* largest per-stream cursor (sampleIndex) a Get call may start from
MaxSampleIndex == 1

\* ------------------------------------------------------------------------
\* MLTSampler constants (mlt.cpp:55-58)
\* ------------------------------------------------------------------------
cameraStreamIndex == 0
lightStreamIndex == 1
connectionStreamIndex == 2
nSampleStreams == 3

\* ------------------------------------------------------------------------
\* RNG: a deterministic generator; its stream is a function of the
\* seed and of the number of draws.  A full-period linear congruential
\* generator modulo LcgM; UniformFloat is the top of the new state.
\* ------------------------------------------------------------------------
LcgM == 16
LcgA == 5
LcgC == 3

RNG(seed) == (2 * seed + 1) % LcgM

RngAdvance(r) == (LcgA * r + LcgC) % LcgM

\* the uniform value in [0,1) that a draw leaving the generator in state r returns
RngValue(r) == (r * Q) \div LcgM

\* ------------------------------------------------------------------------
\* PrimarySample
\* ------------------------------------------------------------------------
PrimarySample == [value |-> 0, lastModificationIteration |-> 0,
                  valueBackup |-> 0, modifyBackup |-> 0]

Backup(Xi) == [Xi EXCEPT !.valueBackup = Xi.value,
                         !.modifyBackup = Xi.lastModificationIteration]

Restore(Xi) == [Xi EXCEPT !.value = Xi.valueBackup,
                          !.lastModificationIteration = Xi.modifyBackup]

\* ------------------------------------------------------------------------
\* MLTSampler
\* ------------------------------------------------------------------------

\* the sampler as constructed: MLTSampler(mutationsPerPixel, rngSequenceIndex,
\* sigma, largeStepProbability, streamCount).  streamIndex and sampleIndex
\* are set by the first StartStream.
MLTSampler(rngSequenceIndex, sigma, largeStepProbability, streamCount) ==
    [rng |-> RNG(rngSequenceIndex),
     sigma |-> sigma,
     largeStepProbability |-> largeStepProbability,
     streamCount |-> streamCount,
     X |-> << >>,
     currentIteration |-> 0,
     largeStep |-> TRUE,
     lastLargeStepIteration |-> 0,
     streamIndex |-> 0,
     sampleIndex |-> 0]

\* floor of the square root
ISqrt(n) == CHOOSE r \in 0..n : r * r <= n /\ (r + 1) * (r + 1) > n

\* Sqrt2 * ErfInv(2u - 1): the standard normal quantile of u.  Odd about
\* u = 1/2, increasing, finite at u = 0 (ErfInv clamps its argument).
NormalSample(u) == 2 * u - Q

\* StartIteration counting the iteration twice
StartIterationByTwo(s) ==
    LET r == RngAdvance(s.rng)
    IN  [s EXCEPT !.currentIteration = @ + 2,
                  !.rng = r,
                  !.largeStep = (RngValue(r) < s.largeStepProbability)]

StartIteration(s) ==
    LET r == RngAdvance(s.rng)
    IN  [s EXCEPT !.currentIteration = @ + 1,
                  !.rng = r,
                  !.largeStep = (RngValue(r) < s.largeStepProbability)]

Accept(s) ==
    IF s.largeStep
    THEN [s EXCEPT !.lastLargeStepIteration = s.currentIteration]
    ELSE s

\* Resize with the new elements left as the storage held them
ResizeUninitialised(X, n, mem) ==
    [i \in 1..n |-> IF i <= Len(X) THEN X[i] ELSE mem]

\* X.resize(n): the new elements are value-initialised; mem, what the
\* storage held before, is not read.
Resize(X, n, mem) ==
    [i \in 1..n |-> IF i <= Len(X) THEN X[i] ELSE PrimarySample]

\* EnsureReady without its reset
ResetNever(Xi, r, lastLargeStepIteration) == [Xi |-> Xi, rng |-> r]

\* the lazy reset of EnsureReady (mlt.cpp:107-111): the sample and the
\* generator after it
ResetIfStale(Xi, r, lastLargeStepIteration) ==
    IF Xi.lastModificationIteration < lastLargeStepIteration
    THEN [Xi |-> [Xi EXCEPT !.value = RngValue(RngAdvance(r)),
                            !.lastModificationIteration = lastLargeStepIteration],
          rng |-> RngAdvance(r)]
    ELSE [Xi |-> Xi, rng |-> r]

\* the mutation of EnsureReady (mlt.cpp:115-129): the new value, drawn with
\* the generator state r2 the draw leaves
Mutate(Xi, r2, s) ==
    IF s.largeStep
    THEN RngValue(r2)
    ELSE LET nSmall == s.currentIteration - Xi.lastModificationIteration
             normalSample == NormalSample(RngValue(r2))
             effSigma == s.sigma * ISqrt(nSmall)
         IN  (Xi.value + normalSample * effSigma) % Q

\* EnsureReady with the backup taken before the reset
EnsureReadyBackupFirst(s, index, mem) ==
    LET X1 == IF index >= Len(s.X) THEN Resize(s.X, index + 1, mem) ELSE s.X
        rs == ResetIfStale(Backup(X1[index + 1]), s.rng, s.lastLargeStepIteration)
        r2 == RngAdvance(rs.rng)
        Xm == [rs.Xi EXCEPT !.value = Mutate(rs.Xi, r2, s),
                            !.lastModificationIteration = s.currentIteration]
    IN  [s EXCEPT !.X = [X1 EXCEPT ![index + 1] = Xm], !.rng = r2]

\* EnsureReady(index); X is indexed from 0 in the code, from 1 here.
EnsureReady(s, index, mem) ==
    LET X1 == IF index >= Len(s.X) THEN Resize(s.X, index + 1, mem) ELSE s.X
        rs == ResetIfStale(X1[index + 1], s.rng, s.lastLargeStepIteration)
        Xb == Backup(rs.Xi)
        r2 == RngAdvance(rs.rng)
        Xm == [Xb EXCEPT !.value = Mutate(Xb, r2, s),
                         !.lastModificationIteration = s.currentIteration]
    IN  [s EXCEPT !.X = [X1 EXCEPT ![index + 1] = Xm], !.rng = r2]

\* Reject with the rejected iteration left in the count
RejectKeepsCount(s) ==
    [s EXCEPT !.X = [i \in 1..Len(s.X) |->
                        IF s.X[i].lastModificationIteration = s.currentIteration
                        THEN Restore(s.X[i]) ELSE s.X[i]]]

\* Reject with the counter rolled back before the comparison
RejectDecrementFirst(s) ==
    [s EXCEPT !.X = [i \in 1..Len(s.X) |->
                        IF s.X[i].lastModificationIteration = s.currentIteration - 1
                        THEN Restore(s.X[i]) ELSE s.X[i]],
              !.currentIteration = @ - 1]

Reject(s) ==
    [s EXCEPT !.X = [i \in 1..Len(s.X) |->
                        IF s.X[i].lastModificationIteration = s.currentIteration
                        THEN Restore(s.X[i]) ELSE s.X[i]],
              !.currentIteration = @ - 1]

StartStream(s, index) == [s EXCEPT !.streamIndex = index, !.sampleIndex = 0]

\* the index taken from the cursor alone, whatever the stream
GetNextIndexOneStream(s) == s.sampleIndex

\* GetNextIndex(): streamIndex + streamCount * sampleIndex++
GetNextIndex(s) == s.streamIndex + s.streamCount * s.sampleIndex

\* Get1D: the sampler after the call and the value returned
Get1D(s, mem) ==
    LET index == GetNextIndex(s)
        s1 == EnsureReady([s EXCEPT !.sampleIndex = @ + 1], index, mem)
    IN  [smp |-> s1, value |-> s1.X[index + 1].value]

\* Get2D: {Get1D(), Get1D()}, evaluated left to right
Get2D(s, mem) ==
    LET a == Get1D(s, mem)
        b == Get1D(a.smp, mem)
    IN  [smp |-> b.smp, value |-> <<a.value, b.value>>]


\* ------------------------------------------------------------------------
\* Float values as exact fractions <<n, d>> in lowest terms, n >= 0 and
\* d >= 0: <<1, 0>> is +infinity and <<0, 0>> is NaN, so that x / 0,
\* 0 / 0, 0 * infinity and every comparison with NaN come out as IEEE
\* arithmetic has them
\* ------------------------------------------------------------------------
RECURSIVE GCD(_, _)
GCD(a, b) == IF b = 0 THEN a ELSE GCD(b, a % b)

Frac(n, d) ==
    IF n = 0 /\ d = 0 THEN <<0, 0>>
    ELSE LET g == GCD(n, d) IN <<n \div g, d \div g>>

FracAdd(x, y) == Frac(x[1] * y[2] + y[1] * x[2], x[2] * y[2])

\* x - y for y <= x
FracSub(x, y) == Frac(x[1] * y[2] - y[1] * x[2], x[2] * y[2])

FracMul(x, y) == Frac(x[1] * y[1], x[2] * y[2])

FracDiv(x, y) == Frac(x[1] * y[2], x[2] * y[1])

FracLess(x, y) == x[1] * y[2] < y[1] * x[2]

\* std::min(a, b): b if b < a, else a
FracMin(a, b) == IF FracLess(b, a) THEN b ELSE a

NaN == <<0, 0>>

Zero == <<0, 1>>

One == <<1, 1>>

\* ------------------------------------------------------------------------
\* The scene, camera, lights and scattering functions: what the
\* integrators consume.  A scene lists what rays meet and which lights it
\* holds; a position is named by the kind of thing found there.
\* ------------------------------------------------------------------------
SurfaceKinds == {"diffuse", "mirror", "lamp"}

\* a ray spawned with the sample pair u, after skips medium boundaries
Ray(u, skips) == [u |-> u, skips |-> skips]

\* scene.Intersect and ray.medium->Sample together: "absorbed" (the medium
\* leaves no throughput), "fog" (a medium interaction), "escape" (no
\* intersection), "boundary" (an intersection without a BSDF) or the kind
\* of surface hit
Trace(scene, ray) ==
    scene.rays[((ray.u[1] + Q * ray.u[2] + ray.skips) % Len(scene.rays)) + 1]

\* lightDistr.Sample(u, &lightPdf): the light chosen, "none" when lightPdf = 0
SampleLight(scene, u) == scene.lights[(u % Len(scene.lights)) + 1]

\* BSDF::Sample_f at a surface of the given kind: whether f and the density
\* are non-zero, and whether the sampled component is specular
Sample_f(scene, kind, u) ==
    [nonzero |-> ~(scene.grazing /\ u[2] = 0),
     specular |-> kind = "mirror"]

\* the density, per unit solid angle, with which a vertex at p scatters,
\* emits or (the camera) looks into a direction; a specular BSDF's Pdf is 0
DirectionPdf(p) ==
    CASE p = "mirror" -> 0
      [] p \in {"lamp", "area", "infinite"} -> 2
      [] OTHER -> 1

\* squared distance and cosine at the receiving end
Geometry(from, to) == IF to \in {"diffuse", "camera"} THEN 2 ELSE 1

\* the density of choosing the light and the point on it
PdfPosition(p) == IF p = "area" \/ p = "lamp" THEN 2 ELSE 1

\* whether the segment between two positions is unoccluded: in a scene
\* with occlusion, what emits is hidden from the diffuse surfaces
Visible(scene, a, b) ==
    ~(/\ scene.occluded
      /\ "diffuse" \in {a, b}
      /\ {a, b} \cap {"lamp", "area", "distant", "infinite"} # {})

\* ------------------------------------------------------------------------
\* Vertex (bdpt.h)
\* ------------------------------------------------------------------------
NoVertex == [type |-> "None", p |-> "none", beta |-> 0, delta |-> FALSE,
             pdfFwd |-> 0, pdfRev |-> 0]

Vertex(type, p, beta, pdfFwd) ==
    [type |-> type, p |-> p, beta |-> beta, delta |-> FALSE,
     pdfFwd |-> pdfFwd, pdfRev |-> 0]

IsInfiniteLight(v) == v.type = "Light" /\ v.p \in {"escaped", "infinite"}

IsLight(v) == v.type = "Light" \/ (v.type = "Surface" /\ v.p = "lamp")

IsDeltaLight(v) == v.type = "Light" /\ v.p \in {"point", "distant"}

IsOnSurface(v) == v.p \in SurfaceKinds \cup {"area"}

IsConnectible(v) ==
    CASE v.type = "Medium" -> TRUE
      [] v.type = "Camera" -> TRUE
      [] v.type = "Light" -> v.p # "distant"
      [] v.type = "Surface" -> v.p # "mirror"
      [] OTHER -> FALSE

\* v.ConvertDensity(pdf, next): solid angle to area at next
ConvertDensity(v, pdf, next) ==
    IF IsInfiniteLight(next) THEN pdf ELSE pdf * Geometry(v.p, next.p)

CreateCamera(beta) == Vertex("Camera", "camera", beta, 0)

CreateLight(p, beta, pdf) == Vertex("Light", p, beta, pdf)

CreateSurface(p, beta, pdf, prev) ==
    LET v == Vertex("Surface", p, beta, 0)
    IN  [v EXCEPT !.pdfFwd = ConvertDensity(prev, pdf, v)]

CreateMedium(beta, pdf, prev) ==
    LET v == Vertex("Medium", "fog", beta, 0)
    IN  [v EXCEPT !.pdfFwd = ConvertDensity(prev, pdf, v)]

\* v.PdfLight(scene, next): the area density at next of the light v emitting
\* towards it
PdfLight(v, next) ==
    IF IsInfiniteLight(v) THEN PdfPosition(next.p)
    ELSE DirectionPdf(v.p) * Geometry(v.p, next.p)

\* v.PdfLightOrigin(scene, next, lightDistr): the density of the light
\* sampling choosing v as its origin
PdfLightOrigin(v, next) ==
    IF IsInfiniteLight(v) THEN DirectionPdf("infinite") ELSE PdfPosition(v.p)

\* v.Pdf(scene, prev, next): the area density at next of v sampling it
Pdf(v, prev, next) ==
    IF v.type = "Light" THEN PdfLight(v, next)
    ELSE ConvertDensity(v, DirectionPdf(v.p), next)

\* ------------------------------------------------------------------------
\* Subpath generation (bdpt.cpp:58-217)
\* ------------------------------------------------------------------------

\* the factor is 0 when wi is perpendicular to the shading normal, and is
\* otherwise a positive ratio, kept as 1
CorrectShadingNormal(scene, u, mode) ==
    IF mode = "Importance"
    THEN (IF scene.perpendicular /\ u[1] = 0 THEN 0 ELSE 1)
    ELSE 1

\* a walk allowed one vertex more than asked
WalkInitOneMore(first, ray, beta, pdf, maxDepth, mode) ==
    [path |-> <<first>>, bounces |-> 0, beta |-> beta, pdfFwd |-> pdf,
     pdfRev |-> 0, ray |-> ray, maxDepth |-> maxDepth + 1, mode |-> mode,
     done |-> FALSE, drew |-> FALSE, appended |-> FALSE]

\* RandomWalk's locals on entry.  path holds the caller's path[0] first:
\* the walk's path[i] is path[i + 2] here, and Len(path) = bounces + 1.
WalkInit(first, ray, beta, pdf, maxDepth, mode) ==
    [path |-> <<first>>, bounces |-> 0, beta |-> beta, pdfFwd |-> pdf,
     pdfRev |-> 0, ray |-> ray, maxDepth |-> maxDepth, mode |-> mode,
     done |-> (maxDepth = 0), drew |-> FALSE, appended |-> FALSE]

\* the walk with vertex v stored in path[bounces] and bounces incremented
WalkStore(w, v, beta) ==
    [w EXCEPT !.path = Append(w.path, v), !.bounces = @ + 1, !.beta = beta,
              !.appended = TRUE]

\* the converted density written to the forward density of prev
WalkSetPrevFwd(w, pdfRev) ==
    LET n == Len(w.path)
    IN  [w EXCEPT !.path[n - 1].pdfFwd =
                      ConvertDensity(w.path[n], pdfRev, w.path[n - 1]) + 1]

\* line 214: prev.pdfRev = vertex.ConvertDensity(pdfRev, prev), for the
\* vertex stored last
WalkSetPrevRev(w, pdfRev) ==
    LET n == Len(w.path)
    IN  [w EXCEPT !.path[n - 1].pdfRev =
                      ConvertDensity(w.path[n], pdfRev, w.path[n - 1])]

\* a throughput never taken as black
IsBlackNever(beta) == FALSE

\* line 158: !beta, the throughput is black
IsBlack(beta) == beta = 0

\* a ray spawned where the last one started: it meets the same boundary
SpawnRayAgain(ray) == ray

\* line 185: isect.SpawnRay(ray.d), the ray continued past a boundary
SpawnRayThrough(ray) == Ray(ray.u, ray.skips + 1)

\* one iteration of RandomWalk's loop; u is the pair sampler.Get2D()
\* returns if the iteration samples a direction (drew says whether it did)
WalkIteration(scene, w0, u) ==
    LET w == [w0 EXCEPT !.drew = FALSE, !.appended = FALSE]
        hit == Trace(scene, w.ray)
        beta == IF hit = "absorbed" THEN 0 ELSE w.beta
        prev == w.path[Len(w.path)]
    IN  IF IsBlack(beta) THEN [w EXCEPT !.beta = 0, !.done = TRUE]
        ELSE IF hit = "fog" THEN
            LET w1 == WalkStore(w, CreateMedium(beta, w.pdfFwd, prev), beta)
                p == DirectionPdf("fog")
            IN  IF w1.bounces >= w.maxDepth THEN [w1 EXCEPT !.done = TRUE]
                ELSE WalkSetPrevRev([w1 EXCEPT !.pdfFwd = p, !.pdfRev = p,
                                               !.ray = Ray(u, 0), !.drew = TRUE], p)
        ELSE IF hit = "escape" THEN
            IF w.mode = "Radiance"
            THEN [WalkStore(w, CreateLight("escaped", beta, w.pdfFwd), beta)
                     EXCEPT !.done = TRUE]
            ELSE [w EXCEPT !.done = TRUE]
        ELSE IF hit = "boundary" THEN
            [w EXCEPT !.ray = SpawnRayThrough(w.ray)]
        ELSE
            LET w1 == WalkStore(w, CreateSurface(hit, beta, w.pdfFwd, prev), beta)
                sf == Sample_f(scene, hit, u)
                n == Len(w1.path)
                pdf == IF sf.specular THEN 0 ELSE DirectionPdf(hit)
                w2 == [w1 EXCEPT !.path[n].delta = sf.specular,
                                 !.pdfFwd = pdf, !.pdfRev = pdf,
                                 !.beta = beta * CorrectShadingNormal(scene, u, w.mode),
                                 !.ray = Ray(u, 0), !.drew = TRUE]
            IN  IF w1.bounces >= w.maxDepth THEN [w1 EXCEPT !.done = TRUE]
                ELSE IF ~sf.nonzero THEN [w1 EXCEPT !.done = TRUE, !.drew = TRUE]
                ELSE WalkSetPrevRev(w2, pdf)

\* GenerateCameraSubpath up to the call of RandomWalk (maxDepth > 0): the
\* camera ray through pFilm; cameraSample.time and pLens are drawn and do
\* not change what the ray meets
CameraWalk(pFilm, maxDepth) ==
    WalkInit(CreateCamera(1), Ray(pFilm, 0), 1, DirectionPdf("camera"),
             maxDepth - 1, "Radiance")

\* Sample_Le: whether Le and both densities are non-zero
Sample_Le(scene, light, uDir) == ~(scene.grazing /\ uDir[2] = 0)

\* GenerateLightSubpath up to the call of RandomWalk, for a light chosen
\* with non-zero probability and a valid emission sample
LightWalk(light, uDir, maxDepth) ==
    WalkInit(CreateLight(light, 1, PdfPosition(light)), Ray(uDir, 0), 1,
             DirectionPdf(light), maxDepth - 1, "Importance")

\* GenerateLightSubpath after RandomWalk (lines 125-138): the densities of
\* the first two vertices of a subpath that starts on an infinite light
LightFinish(path) ==
    IF IsInfiniteLight(path[1])
    THEN LET p1 == IF Len(path) > 1
                   THEN [path EXCEPT ![2].pdfFwd =
                            PdfPosition("infinite") *
                            (IF IsOnSurface(path[2]) THEN Geometry("infinite", path[2].p)
                             ELSE 1)]
                   ELSE path
         IN  [p1 EXCEPT ![1].pdfFwd = DirectionPdf("infinite")]
    ELSE path

\* ------------------------------------------------------------------------
\* ScopedAssignment<T>: a target, its value backed up at construction, the
\* target overwritten; the backup is written back when the scope ends.
\* mem holds the two vertex arrays; a target names an array, an index
\* (from 1) and the vertex itself or one of its fields.
\* ------------------------------------------------------------------------
Target(arr, idx, field) == [arr |-> arr, idx |-> idx, field |-> field]

ReadTarget(mem, tg) ==
    IF tg.field = "vertex" THEN mem[tg.arr][tg.idx]
    ELSE mem[tg.arr][tg.idx][tg.field]

WriteTarget(mem, tg, value) ==
    IF tg.field = "vertex" THEN [mem EXCEPT ![tg.arr][tg.idx] = value]
    ELSE [mem EXCEPT ![tg.arr][tg.idx][tg.field] = value]

ScopedAssignment(st, tg, value) ==
    [mem |-> WriteTarget(st.mem, tg, value),
     scopes |-> Append(st.scopes, [target |-> tg, backup |-> ReadTarget(st.mem, tg)])]

\* the destructors of the scopes numbered from..Len(scopes), run in the
\* reverse of the order of construction
RECURSIVE Unwind(_, _)
Unwind(st, from) ==
    IF Len(st.scopes) < from THEN st.mem
    ELSE LET last == st.scopes[Len(st.scopes)]
         IN  Unwind([mem |-> WriteTarget(st.mem, last.target, last.backup),
                     scopes |-> SubSeq(st.scopes, 1, Len(st.scopes) - 1)], from)

\* ------------------------------------------------------------------------
\* MISWeight (bdpt.cpp:230-294)
\* ------------------------------------------------------------------------
remap0(f) == IF f # 0 THEN f ELSE 1

\* the vertex a pointer refers to; NoVertex stands for nullptr
Deref(arr, idx) == IF idx >= 1 THEN arr[idx] ELSE NoVertex

\* the vertices the pointers qs, pt, qsMinus and ptMinus of lines 241-244
\* refer to when the arrays hold mem
Qs(mem, s) == Deref(mem.light, s)

Pt(mem, t) == Deref(mem.camera, t)

QsMinus(mem, s) == Deref(mem.light, s - 1)

PtMinus(mem, t) == Deref(mem.camera, t - 1)

\* lines 247-251: a1, the sampled vertex in place of the end of a subpath
\* that has one vertex
AssignSampled(st, sampled, s, t) ==
    IF s = 1 THEN ScopedAssignment(st, Target("light", s, "vertex"), sampled)
    ELSE IF t = 1 THEN ScopedAssignment(st, Target("camera", t, "vertex"), sampled)
    ELSE st

\* lines 254-256: a2 and a3, the connection vertices marked non-degenerate
AssignDelta(st, s, t) ==
    LET a2 == IF t > 0
              THEN ScopedAssignment(st, Target("camera", t, "delta"), FALSE)
              ELSE st
    IN  IF s > 0 THEN ScopedAssignment(a2, Target("light", s, "delta"), FALSE)
        ELSE a2

\* lines 259-262: a4, the reverse density of pt
AssignPtRev(st, s, t) ==
    IF t > 0
    THEN ScopedAssignment(st, Target("camera", t, "pdfRev"),
             IF s > 0 THEN Pdf(Qs(st.mem, s), QsMinus(st.mem, s), Pt(st.mem, t))
             ELSE PdfLightOrigin(Pt(st.mem, t), PtMinus(st.mem, t)))
    ELSE st

\* ptMinus left with the reverse density the walk gave it
PtMinusRevAsWalked(st, s, t) == st

\* lines 265-268: a5, the reverse density of ptMinus
AssignPtMinusRev(st, s, t) ==
    IF t > 1
    THEN ScopedAssignment(st, Target("camera", t - 1, "pdfRev"),
             IF s > 0 THEN Pdf(Pt(st.mem, t), Qs(st.mem, s), PtMinus(st.mem, t))
             ELSE PdfLight(Pt(st.mem, t), PtMinus(st.mem, t)))
    ELSE st

\* qs left with the reverse density the walk gave it
QsRevAsWalked(st, s, t) == st

\* lines 271-272: a6, the reverse density of qs
AssignQsRev(st, s, t) ==
    IF s > 0
    THEN ScopedAssignment(st, Target("light", s, "pdfRev"),
             Pdf(Pt(st.mem, t), PtMinus(st.mem, t), Qs(st.mem, s)))
    ELSE st

\* lines 273-274: a7, the reverse density of qsMinus
AssignQsMinusRev(st, s, t) ==
    IF s > 1
    THEN ScopedAssignment(st, Target("light", s - 1, "pdfRev"),
             Pdf(Qs(st.mem, s), Pt(st.mem, t), QsMinus(st.mem, s)))
    ELSE st

\* lines 241-274: the arrays after the temporary updates, and the scopes
\* that will undo them
MISWeightUpdates(light, camera, sampled, s, t) ==
    AssignQsMinusRev(
        AssignQsRev(
            AssignPtMinusRev(
                AssignPtRev(
                    AssignDelta(
                        AssignSampled([mem |-> [light |-> light, camera |-> camera],
                                       scopes |-> << >>], sampled, s, t),
                        s, t), s, t), s, t), s, t), s, t)

\* lines 277-283: the terms of the hypothetical strategies along the camera
\* subpath, from vertex i (code index) down to 1, with ri the product so far
RECURSIVE CameraSum(_, _, _)
CameraSum(camera, i, ri) ==
    IF i <= 0 THEN Zero
    ELSE LET r == FracMul(ri, Frac(remap0(camera[i + 1].pdfRev),
                                   remap0(camera[i + 1].pdfFwd)))
             term == IF ~camera[i + 1].delta /\ ~camera[i].delta THEN r ELSE Zero
         IN  FracAdd(term, CameraSum(camera, i - 1, r))

\* lines 286-292: likewise along the light subpath, from vertex i down to 0
RECURSIVE LightSum(_, _, _)
LightSum(light, i, ri) ==
    IF i < 0 THEN Zero
    ELSE LET r == FracMul(ri, Frac(remap0(light[i + 1].pdfRev),
                                   remap0(light[i + 1].pdfFwd)))
             deltaLightvertex == IF i > 0 THEN light[i].delta
                                 ELSE IsDeltaLight(light[1])
             term == IF ~light[i + 1].delta /\ ~deltaLightvertex THEN r ELSE Zero
         IN  FracAdd(term, LightSum(light, i - 1, r))

\* lines 276-293: the weight 1 / (1 + sumRi) for the arrays as updated
Weight(mem, s, t) ==
    LET sumRi == FracAdd(CameraSum(mem.camera, t - 1, One),
                         LightSum(mem.light, s - 1, One))
    IN  Frac(sumRi[2], sumRi[2] + sumRi[1])

\* what MISWeight returns and leaves behind when the scopes numbered from
\* `from` on are undone as it returns
Weighted(st, s, t, from) ==
    [weight |-> Weight(st.mem, s, t),
     light |-> Unwind(st, from).light,
     camera |-> Unwind(st, from).camera]

\* MISWeight with the slot taken by the sampled vertex assigned plainly:
\* only the scopes after the first are undone
MISWeightSampledKept(light, camera, sampled, s, t) ==
    IF s + t = 2 THEN [weight |-> One, light |-> light, camera |-> camera]
    ELSE Weighted(MISWeightUpdates(light, camera, sampled, s, t), s, t,
                  IF s = 1 \/ t = 1 THEN 2 ELSE 1)

\* MISWeight without the return of line 233
MISWeightAlwaysSummed(light, camera, sampled, s, t) ==
    Weighted(MISWeightUpdates(light, camera, sampled, s, t), s, t, 1)

\* the weight returned and the two arrays as the call leaves them
MISWeight(light, camera, sampled, s, t) ==
    IF s + t = 2 THEN [weight |-> One, light |-> light, camera |-> camera]
    ELSE Weighted(MISWeightUpdates(light, camera, sampled, s, t), s, t, 1)

\* ------------------------------------------------------------------------
\* ConnectBDPT (bdpt.cpp:427-515)
\* ------------------------------------------------------------------------

\* v.f(next, mode): whether the BSDF or phase function of v has a non-zero
\* value towards next (1) or not (0); a specular BSDF evaluates to 0
ScatterValue(v, next) ==
    IF v.type \in {"Surface", "Medium"} /\ v.p # "mirror" THEN 1 ELSE 0

\* pt.Le(scene, ptMinus): emitted radiance (1) or none (0); an escaped ray
\* collects the scene's infinite lights
EmittedValue(scene, pt) ==
    IF pt.p = "lamp" THEN 1
    ELSE IF pt.p = "escaped" /\ (\E i \in 1..Len(scene.lights) : scene.lights[i] = "infinite")
    THEN 1 ELSE 0

\* camera.Sample_Wi(ref, u, ...): whether the importance and its density are
\* non-zero, and the raster position the reference point projects to
Sample_Wi(scene, ref, u) ==
    [nonzero |-> ~(scene.grazing /\ u[2] = 0),
     pRaster |-> IF ref.p = "diffuse" THEN <<0, 0>> ELSE <<Q - 1, 0>>]

\* light->Sample_Li(ref, u, ...): whether the radiance and its density are
\* non-zero
Sample_Li(scene, light, ref, u) == ~(scene.grazing /\ u[2] = 0)

\* what a call that changes nothing and evaluates nothing returns
ConnectNothing(light, camera, pRaster) ==
    [L |-> 0, misWeight |-> Zero, Lpath |-> Zero, pRaster |-> pRaster,
     light |-> light, camera |-> camera, sampled |-> NoVertex,
     rejected |-> TRUE, draws |-> 0, evaluations |-> 0,
     misCalls |-> 0, totalPaths |-> 0, zeroRadiancePaths |-> 0]

\* the unweighted contribution L of lines 439-500 with the vertex sampled,
\* the raster position, the number of values drawn from the sampler and of
\* BSDF, emission, importance, radiance and visibility evaluations.
\* u1 is the value Get1D returns and u2 the pair Get2D returns, if called.
Connection(scene, light, camera, s, t, pRaster, u1, u2) ==
    LET none == [L |-> 0, sampled |-> NoVertex, pRaster |-> pRaster,
                 draws |-> 0, evaluations |-> 0]
    IN  IF s = 0 THEN
            LET pt == camera[t]
            IN  IF IsLight(pt)
                THEN [none EXCEPT !.L = EmittedValue(scene, pt) * pt.beta,
                                  !.evaluations = 1]
                ELSE none
        ELSE IF t = 1 THEN
            LET qs == light[s]
                wi == Sample_Wi(scene, qs, u2)
                sampled == CreateCamera(1)
                L0 == qs.beta * ScatterValue(qs, sampled) * sampled.beta
                vis == IF Visible(scene, qs.p, "camera") THEN 1 ELSE 0
            IN  IF ~IsConnectible(qs) THEN none
                ELSE IF ~wi.nonzero
                THEN [none EXCEPT !.draws = 2, !.evaluations = 1,
                                  !.pRaster = wi.pRaster]
                ELSE [L |-> IF L0 # 0 THEN L0 * vis ELSE 0,
                      sampled |-> sampled, pRaster |-> wi.pRaster,
                      draws |-> 2,
                      evaluations |-> IF L0 # 0 THEN 3 ELSE 2]
        ELSE IF s = 1 THEN
            LET pt == camera[t]
                lt == SampleLight(scene, u1)
                s0 == CreateLight(lt, 1, 0)
                sampled == [s0 EXCEPT !.pdfFwd = PdfLightOrigin(s0, pt)]
                L0 == pt.beta * ScatterValue(pt, sampled) * sampled.beta
                vis == IF Visible(scene, pt.p, lt) THEN 1 ELSE 0
            IN  IF ~IsConnectible(pt) THEN none
                ELSE IF ~Sample_Li(scene, lt, pt, u2)
                THEN [none EXCEPT !.draws = 3, !.evaluations = 1]
                ELSE [L |-> IF L0 # 0 THEN L0 * vis ELSE 0,
                      sampled |-> sampled, pRaster |-> pRaster,
                      draws |-> 3,
                      evaluations |-> IF L0 # 0 THEN 3 ELSE 2]
        ELSE
            LET qs == light[s]
                pt == camera[t]
                L0 == qs.beta * ScatterValue(qs, pt) * ScatterValue(pt, qs) * pt.beta
                G == IF Visible(scene, qs.p, pt.p) THEN 1 ELSE 0
            IN  IF IsConnectible(qs) /\ IsConnectible(pt)
                THEN [none EXCEPT !.L = IF L0 # 0 THEN L0 * G ELSE 0,
                                  !.evaluations = IF L0 # 0 THEN 3 ELSE 2]
                ELSE none

\* the contribution with the zero-radiance counter left alone
ContributionUncounted(c, w) ==
    [L |-> c.L, misWeight |-> w.weight,
     Lpath |-> FracMul(<<c.L, 1>>, w.weight), pRaster |-> c.pRaster,
     light |-> w.light, camera |-> w.camera, sampled |-> c.sampled,
     rejected |-> FALSE, draws |-> c.draws,
     evaluations |-> c.evaluations + w.misCalls,
     misCalls |-> w.misCalls,
     totalPaths |-> 1,
     zeroRadiancePaths |-> 0]

\* lines 502-514: the counters, the weight and the weighted contribution for
\* the connection c; w is what MISWeight returned if it was called
Contribution(c, w) ==
    [L |-> c.L, misWeight |-> w.weight,
     Lpath |-> FracMul(<<c.L, 1>>, w.weight), pRaster |-> c.pRaster,
     light |-> w.light, camera |-> w.camera, sampled |-> c.sampled,
     rejected |-> FALSE, draws |-> c.draws,
     evaluations |-> c.evaluations + w.misCalls,
     misCalls |-> w.misCalls,
     totalPaths |-> 1,
     zeroRadiancePaths |-> IF c.L = 0 THEN 1 ELSE 0]

\* MISWeight called and its result recorded
CallMISWeight(light, camera, sampled, s, t) ==
    [misCalls |-> 1] @@ MISWeight(light, camera, sampled, s, t)

\* the weight computed whatever the contribution
ConnectedWeightAlways(light, camera, s, t, c) ==
    Contribution(c, CallMISWeight(light, camera, c.sampled, s, t))

\* lines 507-508: misWeight = L ? MISWeight(...) : 0
Connected(light, camera, s, t, c) ==
    Contribution(c, IF c.L # 0 THEN CallMISWeight(light, camera, c.sampled, s, t)
                    ELSE [weight |-> Zero, light |-> light, camera |-> camera,
                          misCalls |-> 0])

\* ConnectBDPT without the test of line 435
ConnectBDPTUnguarded(scene, light, camera, s, t, pRaster, u1, u2) ==
    Connected(light, camera, s, t,
              Connection(scene, light, camera, s, t, pRaster, u1, u2))

\* ConnectBDPT: the weighted contribution Lpath it returns, the weight it
\* reports, the arrays and raster position as it leaves them, and its
\* effects: values drawn, evaluations made, calls of MISWeight and the
\* increments of the two counters
ConnectBDPT(scene, light, camera, s, t, pRaster, u1, u2) ==
    IF t > 1 /\ s # 0 /\ camera[t].type = "Light"
    THEN ConnectNothing(light, camera, pRaster)
    ELSE Connected(light, camera, s, t,
                   Connection(scene, light, camera, s, t, pRaster, u1, u2))

\* ------------------------------------------------------------------------
\* MLTIntegrator::L (mlt.cpp:146-181).  An evaluation is carried through
\* its stages as a record: the sampler, the last values drawn, the strategy,
\* the raster position, the walk in progress, the two subpaths, whether L
\* has returned early, and the value it returns.
\* ------------------------------------------------------------------------

\* sampler.GetDiscrete1D(range): min((int)(Get1D() * range), range - 1)
GetDiscrete1D(u, range) ==
    IF (u * range) \div Q < range - 1 THEN (u * range) \div Q ELSE range - 1

NoWalk == [done |-> TRUE]

Evaluation(smp) ==
    [smp |-> smp, u1 |-> 0, u2 |-> <<0, 0>>, uFirst |-> <<0, 0>>,
     nStrategies |-> 0, s |-> 0, t |-> 0, pRaster |-> <<0, 0>>,
     w |-> NoWalk, camera |-> << >>, light |-> << >>,
     returned |-> FALSE, L |-> Zero,
     streams |-> << >>, requested |-> << >>]

\* the evaluation's record of the streams started and of the coordinates
\* requested, in order
Drew1D(e, g) ==
    [e EXCEPT !.smp = g.smp, !.u1 = g.value,
              !.requested = Append(@, GetNextIndex(e.smp))]

Drew2D(e, g) ==
    [e EXCEPT !.smp = g.smp, !.uFirst = e.u2, !.u2 = g.value,
              !.requested = @ \o <<GetNextIndex(e.smp),
                                   GetNextIndex([e.smp EXCEPT !.sampleIndex = @ + 1])>>]

\* sampler.StartStream(index) called on the evaluation's sampler
StreamStarted(e, index) ==
    [e EXCEPT !.smp = StartStream(e.smp, index),
              !.streams = Append(@, index)]

\* sampler.Get1D() and sampler.Get2D() called on the evaluation's sampler
Draw1D(e) == Drew1D(e, Get1D(e.smp, PrimarySample))

Draw2D(e) == Drew2D(e, Get2D(e.smp, PrimarySample))

\* RandomWalk's loop run with the evaluation's sampler: an iteration calls
\* sampler.Get2D() if it samples a direction
WalkWith(scene, e, u) == [e EXCEPT !.w = WalkIteration(scene, e.w, u)]

WalkDrawn(scene, e) == WalkWith(scene, e, e.u2)

WalkOnce(scene, e) ==
    IF WalkIteration(scene, e.w, <<0, 0>>).drew
    THEN WalkDrawn(scene, Draw2D(e))
    ELSE WalkWith(scene, e, <<0, 0>>)

RECURSIVE RandomWalk(_, _)
RandomWalk(scene, e) ==
    IF e.w.done THEN e ELSE RandomWalk(scene, WalkOnce(scene, e))

\* lines 150-159, s and t from the value GetDiscrete1D drew
Chosen(e, depth) ==
    [e EXCEPT !.nStrategies = depth + 2,
              !.s = GetDiscrete1D(e.u1, depth + 2),
              !.t = depth + 2 - GetDiscrete1D(e.u1, depth + 2)]

\* the strategy of depth 0 chosen whatever the depth
ChooseStrategyShortest(e, depth) ==
    [e EXCEPT !.nStrategies = 1, !.s = 0, !.t = 2]

\* lines 148-159: the strategy
ChooseStrategy(e, depth) ==
    IF depth = 0 THEN [e EXCEPT !.nStrategies = 1, !.s = 0, !.t = 2]
    ELSE Chosen(Draw1D(e), depth)

\* line 164: *pRaster = sampleBounds.Lerp(sampler.Get2D())
RasterDrawn(e) == [e EXCEPT !.pRaster = e.u2]

CameraStarted(e) == [e EXCEPT !.w = CameraWalk(e.pRaster, e.t)]

\* lines 165-167: return if the subpath has not exactly t vertices
CameraReturned(e) ==
    [e EXCEPT !.camera = e.w.path, !.w = NoWalk,
              !.returned = Len(e.w.path) # e.t]

\* lines 162-167 with GenerateCameraSubpath, which draws the time and the
\* lens position
GenerateCamera(scene, e) ==
    CameraReturned(RandomWalk(scene,
        CameraStarted(Draw2D(Draw1D(RasterDrawn(Draw2D(e)))))))

\* the emission direction among the two pairs drawn for
\* light->Sample_Le(sampler.Get2D(), sampler.Get2D(), ...): C++ leaves the
\* order in which the two arguments are evaluated to the build
EmissionDirection(e, leftFirst) == IF leftFirst THEN e.u2 ELSE e.uFirst

LightReturned(e) ==
    [e EXCEPT !.light = LightFinish(e.w.path), !.w = NoWalk,
              !.returned = Len(e.w.path) # e.s]

LightStarted(e, light, uDir) == [e EXCEPT !.w = LightWalk(light, uDir, e.s)]

\* GenerateLightSubpath after the two pairs are drawn (lines 114-138)
LightSampled(scene, e, light, uDir) ==
    IF ~Sample_Le(scene, light, uDir) THEN [e EXCEPT !.returned = TRUE]
    ELSE LightReturned(RandomWalk(scene, LightStarted(e, light, uDir)))

\* GenerateLightSubpath after the light is drawn (lines 108-138)
LightChosen(scene, e, leftFirst) ==
    IF SampleLight(scene, e.u1) = "none" THEN [e EXCEPT !.returned = TRUE]
    ELSE LightSampled(scene, Draw2D(Draw2D(e)), SampleLight(scene, e.u1),
                      EmissionDirection(Draw2D(Draw2D(e)), leftFirst))

\* lines 170-174: the light stream and the light subpath of s vertices
GenerateLight(scene, e, leftFirst) ==
    IF e.returned THEN e
    ELSE IF e.s = 0
    THEN StreamStarted(e, lightStreamIndex)
    ELSE LightChosen(scene, Draw1D(StreamStarted(e, lightStreamIndex)),
                     leftFirst)

ConnectResult(e, r) ==
    [e EXCEPT !.L = FracMul(r.Lpath, <<e.nStrategies, 1>>),
              !.pRaster = r.pRaster]

ConnectDrawn(scene, e) ==
    ConnectResult(e, ConnectBDPT(scene, e.light, e.camera, e.s, e.t,
                                 e.pRaster, e.u1, e.u2))

\* the values ConnectBDPT draws from the sampler for the subpaths of e
ConnectDraws(scene, e) ==
    ConnectBDPT(scene, e.light, e.camera, e.s, e.t, e.pRaster, 0, <<0, 0>>).draws

ConnectStarted(scene, e) ==
    IF ConnectDraws(scene, e) = 0 THEN ConnectDrawn(scene, e)
    ELSE IF ConnectDraws(scene, e) = 2 THEN ConnectDrawn(scene, Draw2D(e))
    ELSE ConnectDrawn(scene, Draw2D(Draw1D(e)))

\* lines 177-180: the connection stream and the strategy's contribution
\* times nStrategies
Connect(scene, e) ==
    IF e.returned THEN e
    ELSE ConnectStarted(scene, StreamStarted(e, connectionStreamIndex))

\* MLTIntegrator::L(scene, arena, sampler, depth, &pRaster): the evaluation
\* when it returns; its L, pRaster and smp are the value returned, the
\* raster position written and the sampler as left
MLT_L(scene, smp, depth, leftFirst) ==
    Connect(scene,
        GenerateLight(scene,
            GenerateCamera(scene,
                ChooseStrategy(StreamStarted(Evaluation(smp), cameraStreamIndex),
                               depth)),
            leftFirst))

\* ------------------------------------------------------------------------
\* Distribution1D over the bootstrap weights f (a sequence): the
\* cumulative distribution, uniform when every weight is zero, and
\* SampleDiscrete(u), the last index i with cdf[i] <= u
\* ------------------------------------------------------------------------
RECURSIVE PrefixSum(_, _)
PrefixSum(f, i) == IF i = 0 THEN Zero ELSE FracAdd(PrefixSum(f, i - 1), f[i])

funcInt(f) == FracDiv(PrefixSum(f, Len(f)), <<Len(f), 1>>)

Cdf(f, i) ==
    IF PrefixSum(f, Len(f)) = Zero THEN Frac(i, Len(f))
    ELSE FracDiv(PrefixSum(f, i), PrefixSum(f, Len(f)))

SampleDiscrete(f, u) ==
    CHOOSE i \in 0 .. Len(f) - 1 :
        /\ ~FracLess(Frac(u, Q), Cdf(f, i))
        /\ FracLess(Frac(u, Q), Cdf(f, i + 1))

\* ------------------------------------------------------------------------
\* State
\* ------------------------------------------------------------------------
VARIABLES
    \* --- the sampler driven on its own (SpecSampler) ---
    smp,        \* two MLTSampler instances built with the same arguments
    out,        \* per instance, the values the last Get call returned
    phase,      \* "initial", "proposing" (StartIteration done) or "idle"
    started,    \* whether StartStream has been called yet
    lastOp,     \* the last call made
    nCalls,     \* calls made so far
    iterBase,   \* currentIteration before the last StartIteration
    touches,    \* index -> requests of that coordinate since the last StartIteration
    snap        \* index -> value and lastModificationIteration of the coordinate
                \* immediately before its first mutation since the last StartIteration

samplerVars == <<smp, out, phase, started, lastOp, nCalls, iterBase, touches, snap>>

VARIABLES
    \* --- BDPTIntegrator::Render, one tile worker (SpecBDPT) ---
    scene,           \* the scene rendered
    maxDepth,        \* BDPTIntegrator::maxDepth
    pc,              \* where the worker is in the body of the sample loop
    sampleIndex,     \* the sample loop's index
    pFilm,           \* the sample's film position
    walk,            \* RandomWalk's locals while a subpath is generated
    cameraVertices,  \* the camera subpath's buffer
    lightVertices,   \* the light subpath's buffer
    nCamera,         \* vertices GenerateCameraSubpath returned
    nLight,          \* vertices GenerateLightSubpath returned
    st,              \* the strategy loops' indices [s, t]
    L,               \* the sample's radiance, summed so far
    calls,           \* the calls of ConnectBDPT of this sample, in order: [s, t, p, v]
    added,           \* the contributions added to L this sample: [s, t, v]
    splats,          \* film->AddSplat calls of this sample: [s, t, p, v]
    tileSamples,     \* filmTile->AddSample calls so far: [p, v]
    last,            \* what the last call of ConnectBDPT returned and did
    totalPaths,      \* the counter of paths
    zeroRadiancePaths  \* the counter of zero-radiance paths

bdptVars == <<scene, maxDepth, pc, sampleIndex, pFilm, walk, cameraVertices,
              lightVertices, nCamera, nLight, st, L, calls, added, splats,
              tileSamples, last, totalPaths, zeroRadiancePaths>>

VARIABLES
    \* --- MLTIntegrator::Render (SpecMLT) ---
    cfg,               \* the scene, the integrator's parameters and the build
    mpc,               \* "bootstrap", "chains" or "written"
    bootstrapWeights,  \* the vector of that name, indexed from 1
    bootstrapSamplers, \* per entry, the candidate's sampler when L returned
    bootstrapped,      \* the candidates i whose loop body has run
    chains,            \* per chain, the locals of the body of the chain loop
    samplers,          \* the MLTSampler objects of the chain phase
    slog,              \* per sampler, the calls made on it: <<chain, call>>
    totalMutations,    \* the counter of that name
    acceptedMutations  \* the counter of that name

mltVars == <<cfg, mpc, bootstrapWeights, bootstrapSamplers, bootstrapped,
             chains, samplers, slog, totalMutations, acceptedMutations>>

VARIABLES
    \* --- MISWeight applied to the strategies of one path (SpecMIS) ---
    fullPath,    \* what lies at the path's vertices, from the light to the camera
    misWeights   \* s -> the weight MISWeight returned for the strategy (s, t)

misVars == <<fullPath, misWeights>>

VARIABLES
    \* --- one primary sample mutated in float arithmetic (SpecSmallStep) ---
    XiValue,       \* Xi.value, in units of 2^-FracBits
    perturbation   \* normalSample * effSigma of the last small step, or "large"

stepVars == <<XiValue, perturbation>>

\* the variables of the specifications of single functions
VARIABLES
    \* --- the tile workers of BDPTIntegrator::Render (SpecTiles) ---
    job,           \* the render: lights, sample extent, pixelBounds, samplesPerPixel
    rpc,           \* Render's position: "start", "tiles" or "written"
    tileWorkers,   \* per tile, the locals of the lambda: pc, pPixel, sampleIndex
    users,         \* per object of a tile's lambda, the workers that used it
    addSamples,    \* per pixel, the workers whose filmTile->AddSample it received
    sharedWrites   \* the writes to what the workers share: <<worker, call>>

tileVars == <<job, rpc, tileWorkers, users, addSamples, sharedWrites>>

VARIABLES
    \* --- the record of one sampler's iterations (SpecRounds) ---
    accepted,   \* per accepted iteration, in order: whether it was a large
                \* step and the coordinates it requested
    twice       \* whether some iteration so far requested a coordinate twice

roundVars == <<accepted, twice>>

VARIABLES
    \* --- the debug films of BDPTIntegrator::Render (SpecFilms) ---
    visualize,     \* visualizeStrategies and visualizeWeights
    bufferCount,   \* the size weightFilms was constructed with
    weightFilms,   \* index -> the film assigned to that entry; the entries
                   \* not in its domain are null
    alloc,         \* depth and s of the allocation loops
    filmUses       \* the entries AddSplat was called through

filmVars == <<visualize, bufferCount, weightFilms, alloc, filmUses>>

otherVars == <<misVars, stepVars, tileVars, roundVars, filmVars>>

vars == <<samplerVars, bdptVars, mltVars, otherVars>>

\* the variables of a part of the program that a specification leaves out
SamplerUnused ==
    /\ smp = 0
    /\ out = 0
    /\ phase = 0
    /\ started = 0
    /\ lastOp = 0
    /\ nCalls = 0
    /\ iterBase = 0
    /\ touches = 0
    /\ snap = 0

MLTUnused ==
    /\ cfg = 0
    /\ mpc = 0
    /\ bootstrapWeights = 0
    /\ bootstrapSamplers = 0
    /\ bootstrapped = 0
    /\ chains = 0
    /\ samplers = 0
    /\ slog = 0
    /\ totalMutations = 0
    /\ acceptedMutations = 0

MISUnused ==
    /\ fullPath = 0
    /\ misWeights = 0

StepUnused ==
    /\ XiValue = 0
    /\ perturbation = 0

TilesUnused ==
    /\ job = 0
    /\ rpc = 0
    /\ tileWorkers = 0
    /\ users = 0
    /\ addSamples = 0
    /\ sharedWrites = 0

RoundsUnused ==
    /\ accepted = 0
    /\ twice = 0

FilmsUnused ==
    /\ visualize = 0
    /\ bufferCount = 0
    /\ weightFilms = 0
    /\ alloc = 0
    /\ filmUses = 0

OthersUnused ==
    MISUnused /\ StepUnused /\ TilesUnused /\ RoundsUnused /\ FilmsUnused

BDPTUnused ==
    /\ scene = 0
    /\ maxDepth = 0
    /\ pc = 0
    /\ sampleIndex = 0
    /\ pFilm = 0
    /\ walk = 0
    /\ cameraVertices = 0
    /\ lightVertices = 0
    /\ nCamera = 0
    /\ nLight = 0
    /\ st = 0
    /\ L = 0
    /\ calls = 0
    /\ added = 0
    /\ splats = 0
    /\ tileSamples = 0
    /\ last = 0
    /\ totalPaths = 0
    /\ zeroRadiancePaths = 0

\* ------------------------------------------------------------------------
\* SpecSampler: one client making any sequence of calls the class allows,
\* on two instances at once
\* ------------------------------------------------------------------------

\* what the storage a growing vector takes may hold
MemValues == {PrimarySample,
              [value |-> 1, lastModificationIteration |-> 1,
               valueBackup |-> 1, modifyBackup |-> 1]}

Seeds == 0..1
Sigmas == 1..2
LargeStepProbabilities == 1..2

\* the coordinate's state just before EnsureReady(index) mutates it
BeforeMutation(s, index) ==
    LET Xi == IF index >= Len(s.X) THEN PrimarySample ELSE s.X[index + 1]
        rs == ResetIfStale(Xi, s.rng, s.lastLargeStepIteration)
    IN  [value |-> rs.Xi.value,
         lastModificationIteration |-> rs.Xi.lastModificationIteration]

\* the bookkeeping of one request of the next coordinate of sampler s
Touched(g, s) ==
    LET index == GetNextIndex(s)
        first == index \notin DOMAIN g.touches
    IN  [touches |-> [i \in DOMAIN g.touches \cup {index} |->
                         IF i = index
                         THEN (IF first THEN 1 ELSE g.touches[i] + 1)
                         ELSE g.touches[i]],
         snap |-> [i \in DOMAIN g.snap \cup {index} |->
                      IF i = index /\ first THEN BeforeMutation(s, index)
                      ELSE g.snap[i]]]

SamplerInit ==
    /\ \E seed \in Seeds, sigma \in Sigmas, p \in LargeStepProbabilities :
          smp = [i \in 1..2 |-> MLTSampler(seed, sigma, p, nSampleStreams)]
    /\ out = [i \in 1..2 |-> << >>]
    /\ phase = "initial"
    /\ started = FALSE
    /\ lastOp = "new"
    /\ nCalls = 0
    /\ iterBase = 0
    /\ touches = << >>
    /\ snap = << >>
    /\ BDPTUnused
    /\ MLTUnused
    /\ OthersUnused

CallStartIteration ==
    /\ UNCHANGED <<bdptVars, mltVars, otherVars>>
    /\ nCalls < MaxCalls
    /\ phase \in {"initial", "idle"}
    /\ smp' = [i \in 1..2 |-> StartIteration(smp[i])]
    /\ phase' = "proposing"
    /\ lastOp' = "StartIteration"
    /\ nCalls' = nCalls + 1
    /\ iterBase' = smp[1].currentIteration
    /\ touches' = << >>
    /\ snap' = << >>
    /\ UNCHANGED <<out, started>>

CallStartStream ==
    /\ UNCHANGED <<bdptVars, mltVars, otherVars>>
    /\ nCalls < MaxCalls
    /\ phase \in {"initial", "proposing"}
    /\ \E index \in 0..(nSampleStreams - 1) :
          smp' = [i \in 1..2 |-> StartStream(smp[i], index)]
    /\ started' = TRUE
    /\ lastOp' = "StartStream"
    /\ nCalls' = nCalls + 1
    /\ UNCHANGED <<out, phase, iterBase, touches, snap>>

CallGet1D ==
    /\ UNCHANGED <<bdptVars, mltVars, otherVars>>
    /\ nCalls < MaxCalls
    /\ phase \in {"initial", "proposing"}
    /\ started
    /\ smp[1].sampleIndex <= MaxSampleIndex
    /\ \E m1, m2 \in MemValues :
          LET g == <<Get1D(smp[1], m1), Get1D(smp[2], m2)>>
          IN  /\ smp' = [i \in 1..2 |-> g[i].smp]
              /\ out' = [i \in 1..2 |-> <<g[i].value>>]
    /\ LET t == Touched([touches |-> touches, snap |-> snap], smp[1])
       IN  touches' = t.touches /\ snap' = t.snap
    /\ lastOp' = "Get1D"
    /\ nCalls' = nCalls + 1
    /\ UNCHANGED <<phase, started, iterBase>>

CallGet2D ==
    /\ UNCHANGED <<bdptVars, mltVars, otherVars>>
    /\ nCalls < MaxCalls
    /\ phase \in {"initial", "proposing"}
    /\ started
    /\ smp[1].sampleIndex <= MaxSampleIndex
    /\ \E m1, m2 \in MemValues :
          LET g == <<Get2D(smp[1], m1), Get2D(smp[2], m2)>>
          IN  /\ smp' = [i \in 1..2 |-> g[i].smp]
              /\ out' = [i \in 1..2 |-> g[i].value]
              /\ LET t1 == Touched([touches |-> touches, snap |-> snap], smp[1])
                     t2 == Touched(t1, Get1D(smp[1], m1).smp)
                 IN  touches' = t2.touches /\ snap' = t2.snap
    /\ lastOp' = "Get2D"
    /\ nCalls' = nCalls + 1
    /\ UNCHANGED <<phase, started, iterBase>>

CallAccept ==
    /\ UNCHANGED <<bdptVars, mltVars, otherVars>>
    /\ nCalls < MaxCalls
    /\ phase = "proposing"
    /\ smp' = [i \in 1..2 |-> Accept(smp[i])]
    /\ phase' = "idle"
    /\ lastOp' = "Accept"
    /\ nCalls' = nCalls + 1
    /\ UNCHANGED <<out, started, iterBase, touches, snap>>

CallReject ==
    /\ UNCHANGED <<bdptVars, mltVars, otherVars>>
    /\ nCalls < MaxCalls
    /\ phase = "proposing"
    /\ smp' = [i \in 1..2 |-> Reject(smp[i])]
    /\ phase' = "idle"
    /\ lastOp' = "Reject"
    /\ nCalls' = nCalls + 1
    /\ UNCHANGED <<out, started, iterBase, touches, snap>>

SamplerNext ==
    \/ CallStartIteration
    \/ CallStartStream
    \/ CallGet1D
    \/ CallGet2D
    \/ CallAccept
    \/ CallReject

SpecSampler == SamplerInit /\ [][SamplerNext]_vars

\* ------------------------------------------------------------------------
\* SpecRounds: one sampler taken through whole iterations, with the record
\* of the iterations that were accepted.  The coordinates are requested one
\* at a time (Get2D is two Get1D calls, and SpecSampler makes it).
\* ------------------------------------------------------------------------
MaxRoundCalls == 9

\* the record after one more request of the next coordinate of sampler s
\* (the snapshot notes as well whether the coordinate was found stale and
\* what the generator's next draw was)
Requested(g, s) ==
    LET index == GetNextIndex(s)
        first == index \notin DOMAIN g.touches
        Xi == IF index >= Len(s.X) THEN PrimarySample ELSE s.X[index + 1]
    IN  [touches |-> Touched(g, s).touches,
         snap |-> [i \in DOMAIN g.snap \cup {index} |->
                      IF i = index /\ first
                      THEN [value |-> BeforeMutation(s, index).value,
                            lastModificationIteration |->
                                BeforeMutation(s, index).lastModificationIteration,
                            stale |-> Xi.lastModificationIteration
                                          < s.lastLargeStepIteration,
                            fresh |-> index >= Len(s.X),
                            drawn |-> RngValue(RngAdvance(s.rng))]
                      ELSE g.snap[i]],
         twice |-> g.twice \/ ~first]

RoundBook == [touches |-> touches, snap |-> snap, twice |-> twice]

RoundsInit ==
    /\ \E seed \in Seeds, sigma \in Sigmas, p \in LargeStepProbabilities :
          smp = [i \in 1..1 |-> MLTSampler(seed, sigma, p, nSampleStreams)]
    /\ out = [i \in 1..1 |-> << >>]
    /\ phase = "initial"
    /\ started = FALSE
    /\ lastOp = "new"
    /\ nCalls = 0
    /\ iterBase = 0
    /\ touches = << >>
    /\ snap = << >>
    /\ accepted = << >>
    /\ twice = FALSE
    /\ BDPTUnused
    /\ MLTUnused
    /\ MISUnused
    /\ StepUnused
    /\ TilesUnused
    /\ FilmsUnused

RoundStartIteration ==
    /\ UNCHANGED <<bdptVars, mltVars, misVars, stepVars, tileVars, filmVars>>
    /\ nCalls < MaxRoundCalls
    /\ phase \in {"initial", "idle"}
    /\ smp' = [i \in 1..1 |-> StartIteration(smp[i])]
    /\ phase' = "proposing"
    /\ lastOp' = "StartIteration"
    /\ nCalls' = nCalls + 1
    /\ iterBase' = smp[1].currentIteration
    /\ touches' = << >>
    /\ snap' = << >>
    /\ UNCHANGED <<out, started, accepted, twice>>

RoundStartStream ==
    /\ UNCHANGED <<bdptVars, mltVars, misVars, stepVars, tileVars, filmVars>>
    /\ nCalls < MaxRoundCalls
    /\ phase \in {"initial", "proposing"}
    /\ \E index \in 0..(nSampleStreams - 1) :
          smp' = [i \in 1..1 |-> StartStream(smp[i], index)]
    /\ started' = TRUE
    /\ lastOp' = "StartStream"
    /\ nCalls' = nCalls + 1
    /\ UNCHANGED <<out, phase, iterBase, touches, snap, accepted, twice>>

RoundGet1D ==
    /\ UNCHANGED <<bdptVars, mltVars, misVars, stepVars, tileVars, filmVars>>
    /\ nCalls < MaxRoundCalls
    /\ phase \in {"initial", "proposing"}
    /\ started
    /\ smp[1].sampleIndex <= MaxSampleIndex
    /\ \E m \in MemValues :
          \E g \in {Get1D(smp[1], m)} :
             /\ smp' = [i \in 1..1 |-> g.smp]
             /\ out' = [i \in 1..1 |-> <<g.value>>]
    /\ \E b \in {Requested(RoundBook, smp[1])} :
          /\ touches' = b.touches
          /\ snap' = b.snap
          /\ twice' = b.twice
    /\ lastOp' = "Get1D"
    /\ nCalls' = nCalls + 1
    /\ UNCHANGED <<phase, started, iterBase, accepted>>

RoundAccept ==
    /\ UNCHANGED <<bdptVars, mltVars, misVars, stepVars, tileVars, filmVars>>
    /\ nCalls < MaxRoundCalls
    /\ phase = "proposing"
    /\ smp' = [i \in 1..1 |-> Accept(smp[i])]
    /\ accepted' = Append(accepted, [largeStep |-> smp[1].largeStep,
                                     requested |-> DOMAIN touches])
    /\ phase' = "idle"
    /\ lastOp' = "Accept"
    /\ nCalls' = nCalls + 1
    /\ UNCHANGED <<out, started, iterBase, touches, snap, twice>>

RoundReject ==
    /\ UNCHANGED <<bdptVars, mltVars, misVars, stepVars, tileVars, filmVars>>
    /\ nCalls < MaxRoundCalls
    /\ phase = "proposing"
    /\ smp' = [i \in 1..1 |-> Reject(smp[i])]
    /\ phase' = "idle"
    /\ lastOp' = "Reject"
    /\ nCalls' = nCalls + 1
    /\ UNCHANGED <<out, started, iterBase, touches, snap, accepted, twice>>

RoundsNext ==
    \/ RoundStartIteration
    \/ RoundStartStream
    \/ RoundGet1D
    \/ RoundAccept
    \/ RoundReject

SpecRounds == RoundsInit /\ [][RoundsNext]_vars



\* ------------------------------------------------------------------------
\* SpecBDPT: BDPTIntegrator::Render (bdpt.cpp:302-425), one worker
\* rendering the samples of one pixel of its tile
\* ------------------------------------------------------------------------
Pairs == (0 .. Q - 1) \X (0 .. Q - 1)

\* the scenes rendered: what rays meet, the lights, and whether sampled
\* directions can graze (zero value or density), can be perpendicular to a
\* shading normal, and whether surfaces and lamps occlude each other
PlainScene ==
    [rays |-> <<"diffuse", "mirror", "escape">>,
     lights |-> <<"area", "point">>,
     grazing |-> FALSE, perpendicular |-> FALSE, occluded |-> FALSE]

FoggyScene ==
    [rays |-> <<"diffuse", "fog", "absorbed", "boundary", "lamp">>,
     lights |-> <<"infinite", "distant">>,
     grazing |-> TRUE, perpendicular |-> TRUE, occluded |-> TRUE]

DarkScene ==
    [rays |-> <<"diffuse", "escape">>,
     lights |-> <<"none">>,
     grazing |-> FALSE, perpendicular |-> FALSE, occluded |-> FALSE]

UnlitScene ==
    [rays |-> <<"escape">>,
     lights |-> << >>,
     grazing |-> FALSE, perpendicular |-> FALSE, occluded |-> FALSE]

\* the renders checked: a scene and the integrator's maxDepth
Renders ==
    ({PlainScene} \X (0 .. 2)) \cup ({FoggyScene, DarkScene} \X (0 .. 1))
        \cup ({UnlitScene} \X {0})

\* the numbers of samples per pixel checked
SamplesPerPixel == {1}

\* arena.AllocArray<Vertex>(n) holding the vertices of path
Buffer(path, n) ==
    [i \in 1 .. (IF Len(path) > n THEN Len(path) ELSE n) |->
        IF i <= Len(path) THEN path[i] ELSE NoVertex]

\* no call of ConnectBDPT made by the last step
NoCall ==
    [ConnectNothing(<< >>, << >>, <<0, 0>>) EXCEPT !.rejected = FALSE]
        @@ [called |-> FALSE, s |-> 0, t |-> 0]

BDPTInit ==
    /\ \E r \in Renders : scene = r[1] /\ maxDepth = r[2]
    /\ pc = "start"
    /\ sampleIndex = 0
    /\ pFilm = <<0, 0>>
    /\ walk = NoWalk
    /\ cameraVertices = << >>
    /\ lightVertices = << >>
    /\ nCamera = 0
    /\ nLight = 0
    /\ st = [s |-> 0, t |-> 1]
    /\ L = Zero
    /\ calls = << >>
    /\ added = << >>
    /\ splats = << >>
    /\ tileSamples = << >>
    /\ last = NoCall
    /\ totalPaths = 0
    /\ zeroRadiancePaths = 0
    /\ SamplerUnused
    /\ MLTUnused
    /\ OthersUnused

\* line 336: nothing is rendered for a scene without lights; otherwise the
\* worker takes its tile
StartTile ==
    /\ UNCHANGED <<samplerVars, mltVars, otherVars>>
    /\ pc = "start"
    /\ pc' = IF Len(scene.lights) > 0 THEN "pixel" ELSE "written"
    /\ UNCHANGED <<scene, maxDepth, sampleIndex, pFilm, walk, cameraVertices,
                   lightVertices, nCamera, nLight, st, L, calls, added,
                   splats, tileSamples, last, totalPaths, zeroRadiancePaths>>

\* lines 349-360: the sample's film position and the start of the camera
\* subpath
StartSample ==
    /\ UNCHANGED <<samplerVars, mltVars, otherVars>>
    /\ pc = "pixel"
    /\ \E spp \in SamplesPerPixel : sampleIndex < spp
    /\ \E u \in Pairs :
          /\ pFilm' = u
          /\ walk' = CameraWalk(u, maxDepth + 2)
    /\ cameraVertices' = Buffer(<< >>, maxDepth + 2)
    /\ lightVertices' = Buffer(<< >>, maxDepth + 1)
    /\ nCamera' = 0
    /\ nLight' = 0
    /\ st' = [s |-> 0, t |-> 1]
    /\ L' = Zero
    /\ calls' = << >>
    /\ added' = << >>
    /\ splats' = << >>
    /\ last' = NoCall
    /\ pc' = "camera"
    /\ UNCHANGED <<scene, maxDepth, sampleIndex, tileSamples, totalPaths,
                   zeroRadiancePaths>>

\* one iteration of RandomWalk's loop for the camera subpath
CameraStep ==
    /\ UNCHANGED <<samplerVars, mltVars, otherVars>>
    /\ pc = "camera"
    /\ ~walk.done
    /\ \E u \in Pairs : walk' = WalkIteration(scene, walk, u)
    /\ UNCHANGED <<scene, maxDepth, pc, sampleIndex, pFilm, cameraVertices,
                   lightVertices, nCamera, nLight, st, L, calls, added,
                   splats, tileSamples, last, totalPaths, zeroRadiancePaths>>

\* GenerateCameraSubpath returns; GenerateLightSubpath up to its call of
\* RandomWalk (lines 102-121)
LightStart ==
    /\ UNCHANGED <<samplerVars, mltVars, otherVars>>
    /\ pc = "camera"
    /\ walk.done
    /\ cameraVertices' = Buffer(walk.path, maxDepth + 2)
    /\ nCamera' = Len(walk.path)
    /\ \E u1 \in 0 .. Q - 1, uDir \in Pairs :
          LET light == SampleLight(scene, u1)
          IN  IF light = "none" \/ ~Sample_Le(scene, light, uDir)
              THEN /\ walk' = NoWalk
                   /\ pc' = "connect"
              ELSE /\ walk' = LightWalk(light, uDir, maxDepth + 1)
                   /\ pc' = "light"
    /\ UNCHANGED <<scene, maxDepth, sampleIndex, pFilm, lightVertices, nLight,
                   st, L, calls, added, splats, tileSamples, last, totalPaths,
                   zeroRadiancePaths>>

\* one iteration of RandomWalk's loop for the light subpath
LightStep ==
    /\ UNCHANGED <<samplerVars, mltVars, otherVars>>
    /\ pc = "light"
    /\ ~walk.done
    /\ \E u \in Pairs : walk' = WalkIteration(scene, walk, u)
    /\ UNCHANGED <<scene, maxDepth, pc, sampleIndex, pFilm, cameraVertices,
                   lightVertices, nCamera, nLight, st, L, calls, added,
                   splats, tileSamples, last, totalPaths, zeroRadiancePaths>>

\* RandomWalk returns to GenerateLightSubpath, which returns (lines 124-138)
LightDone ==
    /\ UNCHANGED <<samplerVars, mltVars, otherVars>>
    /\ pc = "light"
    /\ walk.done
    /\ lightVertices' = Buffer(LightFinish(walk.path), maxDepth + 1)
    /\ nLight' = Len(walk.path)
    /\ walk' = NoWalk
    /\ pc' = "connect"
    /\ UNCHANGED <<scene, maxDepth, sampleIndex, pFilm, cameraVertices,
                   nCamera, st, L, calls, added, splats, tileSamples, last,
                   totalPaths, zeroRadiancePaths>>

\* the pairs the loops of lines 368-369 visit after (s, t)
\* the strategy loops with s running one past the light subpath
NextStrategyPastLight(s, t) ==
    IF s <= nLight THEN [s |-> s + 1, t |-> t] ELSE [s |-> 0, t |-> t + 1]

NextStrategy(s, t) ==
    IF s < nLight THEN [s |-> s + 1, t |-> t] ELSE [s |-> 0, t |-> t + 1]

\* the test of line 372 without its first disjunct
SkippedByDepth(s, t) == t + s - 2 < 0 \/ t + s - 2 > maxDepth

\* line 372: the pairs the loop body skips
Skipped(s, t) == (s = 1 /\ t = 1) \/ t + s - 2 < 0 \/ t + s - 2 > maxDepth

\* every contribution added to L
SplattedNever(t) == FALSE

\* lines 394-397: whether the contribution of a strategy is splatted on the
\* film rather than added to L
Splatted(t) == t = 1

\* the values sampler.Get1D() and sampler.Get2D() can return to the
\* strategies that call them (lines 449 and 469-475); a strategy that does
\* not call them is given 0
Drawn1D(s, t) == IF s = 1 /\ t > 1 THEN 0 .. Q - 1 ELSE {0}

Drawn2D(s, t) == IF s >= 1 /\ (s = 1 \/ t = 1) THEN Pairs ELSE {<<0, 0>>}

\* one iteration of the body of the strategy loops (lines 370-398)
Strategy ==
    /\ UNCHANGED <<samplerVars, mltVars, otherVars>>
    /\ pc = "connect"
    /\ st.t <= nCamera
    /\ st' = NextStrategy(st.s, st.t)
    /\ IF Skipped(st.s, st.t)
       THEN /\ last' = NoCall
            /\ UNCHANGED <<cameraVertices, lightVertices, L, calls, added,
                           splats, totalPaths, zeroRadiancePaths>>
       ELSE \E u1 \in Drawn1D(st.s, st.t), u2 \in Drawn2D(st.s, st.t) :
               \E r \in {ConnectBDPT(scene, lightVertices, cameraVertices,
                                     st.s, st.t, pFilm, u1, u2)} :
                   /\ last' = [r EXCEPT !.light = lightVertices,
                                        !.camera = cameraVertices]
                                  @@ [called |-> TRUE, s |-> st.s, t |-> st.t]
                   /\ lightVertices' = r.light
                   /\ cameraVertices' = r.camera
                   /\ calls' = Append(calls, [s |-> st.s, t |-> st.t,
                                               p |-> r.pRaster, v |-> r.Lpath])
                   /\ totalPaths' = totalPaths + r.totalPaths
                   /\ zeroRadiancePaths' = zeroRadiancePaths + r.zeroRadiancePaths
                   /\ IF Splatted(st.t)
                      THEN /\ splats' = Append(splats,
                                  [s |-> st.s, t |-> st.t, p |-> r.pRaster,
                                   v |-> r.Lpath])
                           /\ UNCHANGED <<L, added>>
                      ELSE /\ L' = FracAdd(L, r.Lpath)
                           /\ added' = Append(added,
                                  [s |-> st.s, t |-> st.t, v |-> r.Lpath])
                           /\ UNCHANGED splats
    /\ UNCHANGED <<scene, maxDepth, pc, sampleIndex, pFilm, walk, nCamera,
                   nLight, tileSamples>>

\* lines 400-404: the sample is added to the film tile and the loop over
\* the samples of the pixel goes on
AddSample ==
    /\ UNCHANGED <<samplerVars, mltVars, otherVars>>
    /\ pc = "connect"
    /\ st.t > nCamera
    /\ tileSamples' = Append(tileSamples, [p |-> pFilm, v |-> L])
    /\ sampleIndex' = sampleIndex + 1
    /\ pc' = "pixel"
    /\ UNCHANGED <<scene, maxDepth, pFilm, walk, cameraVertices,
                   lightVertices, nCamera, nLight, st, L, calls, added,
                   splats, last, totalPaths, zeroRadiancePaths>>

\* lines 407-415: the tile is merged and the image written
FinishTile ==
    /\ UNCHANGED <<samplerVars, mltVars, otherVars>>
    /\ pc = "pixel"
    /\ sampleIndex >= 1
    /\ pc' = "written"
    /\ UNCHANGED <<scene, maxDepth, sampleIndex, pFilm, walk, cameraVertices,
                   lightVertices, nCamera, nLight, st, L, calls, added,
                   splats, tileSamples, last, totalPaths, zeroRadiancePaths>>

BDPTNext ==
    \/ StartTile
    \/ StartSample
    \/ CameraStep
    \/ LightStart
    \/ LightStep
    \/ LightDone
    \/ Strategy
    \/ AddSample
    \/ FinishTile

SpecBDPT == BDPTInit /\ [][BDPTNext]_vars

\* ------------------------------------------------------------------------
\* SpecMLT: MLTIntegrator::Render (mlt.cpp:183-280).  The bootstrap
\* candidates and the chains are the iterations of two ParallelFor loops:
\* their bodies run in any order, a chain's steps interleaved with the
\* other chains'.
\* ------------------------------------------------------------------------
BootstrapCounts == {1, 2, 4}

ChainCounts == {1, 2}

MutationCounts == {1, 2, 3}

\* the renders checked: scene, maxDepth, nBootstrap, nChains,
\* nTotalMutations, sigma, largeStepProbability and the build's order of
\* evaluation of the arguments of Sample_Le
MLTRenders ==
    [scene : {PlainScene, FoggyScene, DarkScene, UnlitScene},
     maxDepth : 0 .. 2,
     nBootstrap : BootstrapCounts,
     nChains : ChainCounts,
     nTotalMutations : MutationCounts,
     sigma : {1, 2},
     largeStepProbability : {1, 3},
     leftFirst : BOOLEAN]

nBootstrapSamples == cfg.nBootstrap * (cfg.maxDepth + 1)

\* the locals of a chain before its body starts
NewChain ==
    [pc |-> "new", rng |-> 0, bootstrapIndex |-> 0, depth |-> 0,
     nChainMutations |-> 0, j |-> 0,
     pCurrent |-> <<0, 0>>, LCurrent |-> Zero,
     pProposed |-> <<0, 0>>, LProposed |-> Zero, accept |-> Zero,
     splats |-> << >>, accepted |-> FALSE]

\* a sampler object not constructed yet
NoSampler == [constructed |-> FALSE]

MLTInit ==
    /\ cfg \in MLTRenders
    /\ mpc = "bootstrap"
    /\ bootstrapWeights = [k \in 1 .. nBootstrapSamples |-> Zero]
    /\ bootstrapSamplers = [k \in 1 .. nBootstrapSamples |-> NoSampler]
    /\ bootstrapped = {}
    /\ chains = [i \in 0 .. cfg.nChains - 1 |-> NewChain]
    /\ samplers = [i \in 0 .. cfg.nChains - 1 |-> NoSampler]
    /\ slog = [i \in 0 .. cfg.nChains - 1 |-> << >>]
    /\ totalMutations = 0
    /\ acceptedMutations = 0
    /\ SamplerUnused
    /\ BDPTUnused
    /\ OthersUnused

\* the sampler a render builds from a seed (lines 200-201 and 236-237)
NewSampler(rngIndex) ==
    MLTSampler(rngIndex, cfg.sigma, cfg.largeStepProbability, nSampleStreams)

\* candidate i's evaluations all made with the sampler of its depth 0
CandidateSeededOnce(i, depth) ==
    MLT_L(cfg.scene, NewSampler(i * (cfg.maxDepth + 1)), depth, cfg.leftFirst)

\* lines 198-205: candidate i's evaluation at a depth
Candidate(i, depth) ==
    MLT_L(cfg.scene, NewSampler(i * (cfg.maxDepth + 1) + depth), depth,
          cfg.leftFirst)

\* lines 196-207: the body of the bootstrap loop for candidate i
BootstrapOf(i) ==
    /\ mpc = "bootstrap"
    /\ Len(cfg.scene.lights) > 0
    /\ i \notin bootstrapped
    /\ bootstrapped' = bootstrapped \cup {i}
    /\ bootstrapWeights' =
          [k \in 1 .. nBootstrapSamples |->
              IF (k - 1) \div (cfg.maxDepth + 1) = i
              THEN Candidate(i, (k - 1) % (cfg.maxDepth + 1)).L
              ELSE bootstrapWeights[k]]
    /\ bootstrapSamplers' =
          [k \in 1 .. nBootstrapSamples |->
              IF (k - 1) \div (cfg.maxDepth + 1) = i
              THEN Candidate(i, (k - 1) % (cfg.maxDepth + 1)).smp
              ELSE bootstrapSamplers[k]]
    /\ UNCHANGED <<cfg, mpc, chains, samplers, slog, totalMutations,
                   acceptedMutations>>
    /\ UNCHANGED <<samplerVars, bdptVars, otherVars>>

\* lines 212-222: the loop has ended (or was skipped, the scene having no
\* light); the distribution is built
BuildDistribution ==
    /\ mpc = "bootstrap"
    /\ Len(cfg.scene.lights) > 0 => bootstrapped = 0 .. cfg.nBootstrap - 1
    /\ mpc' = "chains"
    /\ UNCHANGED <<cfg, bootstrapWeights, bootstrapSamplers, bootstrapped,
                   chains, samplers, slog, totalMutations, acceptedMutations>>
    /\ UNCHANGED <<samplerVars, bdptVars, otherVars>>

\* the sampler object chain i uses: its own local
SamplerOfFirstChain(i) == 0

SamplerOf(i) == i

\* the seed of chain i's sampler
SeedOfChain(i, bootstrapIndex) == i

SamplerSeed(i, bootstrapIndex) == bootstrapIndex

\* every chain given the share rounded up
ChainMutationsRoundedUp(i) ==
    (cfg.nTotalMutations + cfg.nChains - 1) \div cfg.nChains

\* lines 224-226
ChainMutations(i) ==
    LET N == cfg.nTotalMutations
        upper == ((i + 1) * N) \div cfg.nChains
    IN  (IF upper < N THEN upper ELSE N) - (i * N) \div cfg.nChains

Logged(k, i, call) == [slog EXCEPT ![k] = Append(@, <<i, call>>)]

ChainStarted(c, i, r, index, e) ==
    [c EXCEPT !.pc = "idle", !.rng = r, !.bootstrapIndex = index,
              !.depth = index % (cfg.maxDepth + 1),
              !.nChainMutations = ChainMutations(i),
              !.pCurrent = e.pRaster, !.LCurrent = e.L]

\* lines 224-240: chain i's start, from the bootstrap sample its generator
\* selects
ChainStartFrom(i, r, index) ==
    \E e \in {MLT_L(cfg.scene, NewSampler(SamplerSeed(i, index)),
                    index % (cfg.maxDepth + 1), cfg.leftFirst)} :
        /\ chains' = [chains EXCEPT ![i] = ChainStarted(@, i, r, index, e)]
        /\ samplers' = [samplers EXCEPT ![SamplerOf(i)] = e.smp]
        /\ slog' = [slog EXCEPT ![SamplerOf(i)] =
                       @ \o << <<i, "new">>, <<i, "L">> >>]

ChainStartOf(i) ==
    /\ mpc = "chains"
    /\ Len(cfg.scene.lights) > 0
    /\ chains[i].pc = "new"
    /\ ChainStartFrom(i, RngAdvance(RNG(i)),
                      SampleDiscrete(bootstrapWeights, RngValue(RngAdvance(RNG(i)))))
    /\ UNCHANGED <<cfg, mpc, bootstrapWeights, bootstrapSamplers,
                   bootstrapped, totalMutations, acceptedMutations>>
    /\ UNCHANGED <<samplerVars, bdptVars, otherVars>>

\* line 244: sampler.StartIteration()
ChainStartIterationOf(i) ==
    /\ mpc = "chains"
    /\ chains[i].pc = "idle"
    /\ chains[i].j < chains[i].nChainMutations
    /\ samplers' = [samplers EXCEPT ![SamplerOf(i)] = StartIteration(@)]
    /\ slog' = Logged(SamplerOf(i), i, "StartIteration")
    /\ chains' = [chains EXCEPT ![i].pc = "proposing", ![i].splats = << >>]
    /\ UNCHANGED <<cfg, mpc, bootstrapWeights, bootstrapSamplers,
                   bootstrapped, totalMutations, acceptedMutations>>
    /\ UNCHANGED <<samplerVars, bdptVars, otherVars>>

\* lines 245-249: the proposal and its acceptance probability
ChainProposeOf(i) ==
    /\ mpc = "chains"
    /\ chains[i].pc = "proposing"
    /\ \E e \in {MLT_L(cfg.scene, samplers[SamplerOf(i)], chains[i].depth,
                       cfg.leftFirst)} :
          /\ samplers' = [samplers EXCEPT ![SamplerOf(i)] = e.smp]
          /\ chains' = [chains EXCEPT
                ![i].pc = "proposed",
                ![i].pProposed = e.pRaster,
                ![i].LProposed = e.L,
                ![i].accept = FracMin(One, FracDiv(e.L, chains[i].LCurrent))]
    /\ slog' = Logged(SamplerOf(i), i, "L")
    /\ UNCHANGED <<cfg, mpc, bootstrapWeights, bootstrapSamplers,
                   bootstrapped, totalMutations, acceptedMutations>>
    /\ UNCHANGED <<samplerVars, bdptVars, otherVars>>

\* lines 252-255: the splats of the step, in the order made
StepSplats(c) ==
    (IF FracLess(Zero, c.accept)
     THEN << [p |-> c.pProposed,
              v |-> FracDiv(FracMul(c.LProposed, c.accept), c.LProposed)] >>
     ELSE << >>)
    \o << [p |-> c.pCurrent,
           v |-> FracDiv(FracMul(c.LCurrent, FracSub(One, c.accept)),
                         c.LCurrent)] >>

ChainSplatOf(i) ==
    /\ mpc = "chains"
    /\ chains[i].pc = "proposed"
    /\ chains' = [chains EXCEPT ![i].pc = "splatted",
                                ![i].splats = StepSplats(chains[i])]
    /\ UNCHANGED <<cfg, mpc, bootstrapWeights, bootstrapSamplers,
                   bootstrapped, samplers, slog, totalMutations,
                   acceptedMutations>>
    /\ UNCHANGED <<samplerVars, bdptVars, otherVars>>

\* lines 258-265: the proposal accepted or rejected
ChainDecideOf(i) ==
    /\ mpc = "chains"
    /\ chains[i].pc = "splatted"
    /\ LET c == chains[i]
           r == RngAdvance(c.rng)
       IN  IF FracLess(Frac(RngValue(r), Q), c.accept)
           THEN /\ chains' = [chains EXCEPT ![i] =
                       [c EXCEPT !.pc = "idle", !.rng = r, !.j = @ + 1,
                                 !.pCurrent = c.pProposed,
                                 !.LCurrent = c.LProposed,
                                 !.accepted = TRUE]]
                /\ samplers' = [samplers EXCEPT ![SamplerOf(i)] = Accept(@)]
                /\ slog' = Logged(SamplerOf(i), i, "Accept")
                /\ acceptedMutations' = acceptedMutations + 1
           ELSE /\ chains' = [chains EXCEPT ![i] =
                       [c EXCEPT !.pc = "idle", !.rng = r, !.j = @ + 1,
                                 !.accepted = FALSE]]
                /\ samplers' = [samplers EXCEPT ![SamplerOf(i)] = Reject(@)]
                /\ slog' = Logged(SamplerOf(i), i, "Reject")
                /\ UNCHANGED acceptedMutations
    /\ totalMutations' = totalMutations + 1
    /\ UNCHANGED <<cfg, mpc, bootstrapWeights, bootstrapSamplers, bootstrapped>>
    /\ UNCHANGED <<samplerVars, bdptVars, otherVars>>

\* the chain's loop left between two iterations whatever j
ChainEndEarlyOf(i) ==
    /\ mpc = "chains"
    /\ chains[i].pc = "idle"
    /\ chains' = [chains EXCEPT ![i].pc = "ended"]
    /\ UNCHANGED <<cfg, mpc, bootstrapWeights, bootstrapSamplers,
                   bootstrapped, samplers, slog, totalMutations,
                   acceptedMutations>>
    /\ UNCHANGED <<samplerVars, bdptVars, otherVars>>

\* line 243: the chain's loop ends
ChainEndOf(i) ==
    /\ mpc = "chains"
    /\ chains[i].pc = "idle"
    /\ chains[i].j >= chains[i].nChainMutations
    /\ chains' = [chains EXCEPT ![i].pc = "ended"]
    /\ UNCHANGED <<cfg, mpc, bootstrapWeights, bootstrapSamplers,
                   bootstrapped, samplers, slog, totalMutations,
                   acceptedMutations>>
    /\ UNCHANGED <<samplerVars, bdptVars, otherVars>>

\* lines 273-279: every chain has ended (or none ran); the image is written
WriteImage ==
    /\ mpc = "chains"
    /\ Len(cfg.scene.lights) > 0 =>
          \A i \in DOMAIN chains : chains[i].pc = "ended"
    /\ mpc' = "written"
    /\ UNCHANGED <<cfg, bootstrapWeights, bootstrapSamplers, bootstrapped,
                   chains, samplers, slog, totalMutations, acceptedMutations>>
    /\ UNCHANGED <<samplerVars, bdptVars, otherVars>>

\* the loop bodies, for any candidate and any chain
Bootstrap == \E i \in 0 .. cfg.nBootstrap - 1 : BootstrapOf(i)

ChainStart == \E i \in DOMAIN chains : ChainStartOf(i)

ChainStartIteration == \E i \in DOMAIN chains : ChainStartIterationOf(i)

ChainPropose == \E i \in DOMAIN chains : ChainProposeOf(i)

ChainSplat == \E i \in DOMAIN chains : ChainSplatOf(i)

ChainDecide == \E i \in DOMAIN chains : ChainDecideOf(i)

ChainEnd == \E i \in DOMAIN chains : ChainEndOf(i)

MLTNext ==
    \/ Bootstrap
    \/ BuildDistribution
    \/ ChainStart
    \/ ChainStartIteration
    \/ ChainPropose
    \/ ChainSplat
    \/ ChainDecide
    \/ ChainEnd
    \/ WriteImage

SpecMLT == MLTInit /\ [][MLTNext]_vars

\* ------------------------------------------------------------------------
\* SpecSubpath: one call of GenerateCameraSubpath or GenerateLightSubpath
\* (bdpt.cpp:72-139) with any depth limit, on a buffer of that many
\* vertices, as BDPTIntegrator::Render (lines 355-365) and MLTIntegrator::L
\* (mlt.cpp:162-173) make it.  maxDepth is the callee's parameter of that
\* name; RandomWalk's loop is run one iteration a step.
\* ------------------------------------------------------------------------
MaxDepthLimit == 4

SubpathScenes == {PlainScene, FoggyScene, DarkScene}

SubpathInit ==
    /\ scene \in SubpathScenes
    /\ maxDepth \in 0 .. MaxDepthLimit
    /\ pc = "call"
    /\ sampleIndex = 0
    /\ pFilm = <<0, 0>>
    /\ walk = NoWalk
    /\ cameraVertices = Buffer(<< >>, maxDepth)
    /\ lightVertices = Buffer(<< >>, maxDepth)
    /\ nCamera = 0
    /\ nLight = 0
    /\ st = [s |-> 0, t |-> 1]
    /\ L = Zero
    /\ calls = << >>
    /\ added = << >>
    /\ splats = << >>
    /\ tileSamples = << >>
    /\ last = NoCall
    /\ totalPaths = 0
    /\ zeroRadiancePaths = 0
    /\ SamplerUnused
    /\ MLTUnused
    /\ OthersUnused

\* GenerateCameraSubpath up to its call of RandomWalk, or its return of 0
\* (lines 76-93)
CallCamera ==
    /\ pc = "call"
    /\ IF maxDepth = 0
       THEN pc' = "returned" /\ UNCHANGED <<pFilm, walk>>
       ELSE \E u \in Pairs :
               /\ pFilm' = u
               /\ walk' = CameraWalk(u, maxDepth)
               /\ pc' = "camera"
    /\ UNCHANGED <<scene, maxDepth, sampleIndex, cameraVertices,
                   lightVertices, nCamera, nLight, st, L, calls, added,
                   splats, tileSamples, last, totalPaths, zeroRadiancePaths>>
    /\ UNCHANGED <<samplerVars, mltVars, otherVars>>

\* GenerateLightSubpath up to its call of RandomWalk, or its return of 0
\* (lines 102-121)
CallLight ==
    /\ pc = "call"
    /\ \E u1 \in 0 .. Q - 1, uDir \in Pairs :
          IF \/ maxDepth = 0
             \/ SampleLight(scene, u1) = "none"
             \/ ~Sample_Le(scene, SampleLight(scene, u1), uDir)
          THEN pc' = "returned" /\ UNCHANGED walk
          ELSE /\ walk' = LightWalk(SampleLight(scene, u1), uDir, maxDepth)
               /\ pc' = "light"
    /\ UNCHANGED <<scene, maxDepth, sampleIndex, pFilm, cameraVertices,
                   lightVertices, nCamera, nLight, st, L, calls, added,
                   splats, tileSamples, last, totalPaths, zeroRadiancePaths>>
    /\ UNCHANGED <<samplerVars, mltVars, otherVars>>

\* lines 93-95: RandomWalk has returned; GenerateCameraSubpath returns its
\* count + 1, the vertices being in the caller's buffer
ReturnCamera ==
    /\ pc = "camera"
    /\ walk.done
    /\ cameraVertices' = Buffer(walk.path, maxDepth)
    /\ nCamera' = walk.bounces + 1
    /\ pc' = "returned"
    /\ UNCHANGED <<scene, maxDepth, sampleIndex, pFilm, walk, lightVertices,
                   nLight, st, L, calls, added, splats, tileSamples, last,
                   totalPaths, zeroRadiancePaths>>
    /\ UNCHANGED <<samplerVars, mltVars, otherVars>>

\* lines 124-138: RandomWalk has returned; GenerateLightSubpath returns
\* nVertices + 1
ReturnLight ==
    /\ pc = "light"
    /\ walk.done
    /\ lightVertices' = Buffer(LightFinish(walk.path), maxDepth)
    /\ nLight' = walk.bounces + 1
    /\ pc' = "returned"
    /\ UNCHANGED <<scene, maxDepth, sampleIndex, pFilm, walk, cameraVertices,
                   nCamera, st, L, calls, added, splats, tileSamples, last,
                   totalPaths, zeroRadiancePaths>>
    /\ UNCHANGED <<samplerVars, mltVars, otherVars>>

SubpathNext ==
    \/ CallCamera
    \/ CallLight
    \/ CameraStep
    \/ LightStep
    \/ ReturnCamera
    \/ ReturnLight

\* the calling thread keeps running: a call that can take a step takes one
SpecSubpath == SubpathInit /\ [][SubpathNext]_vars /\ WF_vars(SubpathNext)

\* ------------------------------------------------------------------------
\* SpecTiles: the tiles of BDPTIntegrator::Render (bdpt.cpp:336-410), each
\* the body of one call ParallelFor2D makes of the lambda, the calls
\* running concurrently.  The image is a strip of pixels 0 .. extent - 1;
\* what a sample computes is not followed, only which objects its steps
\* use and which calls they make on the film.
\* ------------------------------------------------------------------------
MaxExtent == 4

TileSize == 2

\* Intersect(sampleBounds, pb), an interval [lo, hi)
Intersect(extent, pb) ==
    [lo |-> IF pb.lo > 0 THEN pb.lo ELSE 0,
     hi |-> IF pb.hi < extent THEN pb.hi ELSE extent]

\* the renders checked: whether the scene has lights, the sample bounds,
\* the "pixelbounds" parameter as CreateBDPTIntegrator clips it (lines
\* 531-543) and the sampler's samplesPerPixel
TileJobs ==
    {[lights |-> l, extent |-> e, pixelBounds |-> Intersect(e, pb),
      samplesPerPixel |-> n] :
        l \in BOOLEAN, e \in 1 .. MaxExtent,
        pb \in [lo : {0, 1}, hi : {MaxExtent - 1, MaxExtent + 1}],
        n \in {1, 2}}

\* ParallelFor2D(sampleBounds, tileSize, ...): the tiles, and the bounds of
\* tile k
Tiles == 0 .. ((job.extent + TileSize - 1) \div TileSize) - 1

TileLo(k) == k * TileSize

TileHi(k) ==
    IF (k + 1) * TileSize < job.extent THEN (k + 1) * TileSize ELSE job.extent

InsideExclusive(p, b) == b.lo <= p /\ p < b.hi

\* the lambda's sampler being the integrator's, not a clone
TileSamplerShared(k) == <<"sampler", 0>>

\* the objects of the lambda called for tile k: its arena, the clone of the
\* sampler, its film tile, and the vertex arrays allocated from the arena
ArenaOf(k) == <<"arena", k>>

TileSamplerOf(k) == <<"sampler", k>>

FilmTileOf(k) == <<"filmTile", k>>

VerticesOf(k) == <<"vertices", k>>

TileObjects == {"arena", "sampler", "filmTile", "vertices"} \X Tiles

\* worker k has used the objects objs
Used(objs, k) ==
    [o \in DOMAIN users |-> IF o \in objs THEN users[o] \cup {k} ELSE users[o]]

TilesInit ==
    /\ job \in TileJobs
    /\ rpc = "start"
    /\ tileWorkers = [k \in Tiles |-> [pc |-> "new", pPixel |-> 0, sampleIndex |-> 0]]
    /\ users = [o \in TileObjects |-> {}]
    /\ addSamples = [p \in 0 .. job.extent - 1 |-> << >>]
    /\ sharedWrites = {}
    /\ SamplerUnused
    /\ BDPTUnused
    /\ MLTUnused
    /\ MISUnused
    /\ StepUnused
    /\ RoundsUnused
    /\ FilmsUnused

\* line 336-337: the tiles are handed out if the scene has a light
TilesBegin ==
    /\ rpc = "start"
    /\ job.lights
    /\ rpc' = "tiles"
    /\ UNCHANGED <<job, tileWorkers, users, addSamples, sharedWrites>>
    /\ UNCHANGED <<samplerVars, bdptVars, mltVars, misVars, stepVars, roundVars, filmVars>>

\* lines 340-343: the lambda's arena, sampler clone and film tile
TileBeginOf(k) ==
    /\ rpc = "tiles"
    /\ tileWorkers[k].pc = "new"
    /\ tileWorkers' = [tileWorkers EXCEPT ![k].pc = "pixel",
                                          ![k].pPixel = TileLo(k)]
    /\ users' = Used({ArenaOf(k), TileSamplerOf(k), FilmTileOf(k)}, k)
    /\ UNCHANGED <<job, rpc, addSamples, sharedWrites>>
    /\ UNCHANGED <<samplerVars, bdptVars, mltVars, misVars, stepVars, roundVars, filmVars>>

\* lines 344-346: the next pixel of the tile, skipped if outside pixelBounds
TilePixelOf(k) ==
    /\ rpc = "tiles"
    /\ tileWorkers[k].pc = "pixel"
    /\ tileWorkers[k].pPixel < TileHi(k)
    /\ tileWorkers' =
          IF InsideExclusive(tileWorkers[k].pPixel, job.pixelBounds)
          THEN [tileWorkers EXCEPT ![k].pc = "sample", ![k].sampleIndex = 0]
          ELSE [tileWorkers EXCEPT ![k].pPixel = @ + 1]
    /\ UNCHANGED <<job, rpc, users, addSamples, sharedWrites>>
    /\ UNCHANGED <<samplerVars, bdptVars, mltVars, misVars, stepVars, roundVars, filmVars>>

\* lines 348-365: a sample started and its subpaths generated, or the
\* sample loop left
TileSampleOf(k) ==
    /\ rpc = "tiles"
    /\ tileWorkers[k].pc = "sample"
    /\ IF tileWorkers[k].sampleIndex < job.samplesPerPixel
       THEN /\ tileWorkers' = [tileWorkers EXCEPT ![k].pc = "generated"]
            /\ users' = Used({TileSamplerOf(k), ArenaOf(k), VerticesOf(k)}, k)
       ELSE /\ tileWorkers' = [tileWorkers EXCEPT ![k].pc = "pixel",
                                                  ![k].pPixel = @ + 1]
            /\ UNCHANGED users
    /\ UNCHANGED <<job, rpc, addSamples, sharedWrites>>
    /\ UNCHANGED <<samplerVars, bdptVars, mltVars, misVars, stepVars, roundVars, filmVars>>

\* lines 367-399: the strategies connected; those with t = 1 splat on the
\* film the workers share
TileConnectOf(k) ==
    /\ rpc = "tiles"
    /\ tileWorkers[k].pc = "generated"
    /\ tileWorkers' = [tileWorkers EXCEPT ![k].pc = "connected"]
    /\ users' = Used({TileSamplerOf(k), VerticesOf(k)}, k)
    /\ \E splat \in BOOLEAN :
          sharedWrites' = sharedWrites \cup
              (IF splat THEN {<<k, "AddSplat">>} ELSE {})
    /\ UNCHANGED <<job, rpc, addSamples>>
    /\ UNCHANGED <<samplerVars, bdptVars, mltVars, misVars, stepVars, roundVars, filmVars>>

\* lines 402-403: filmTile->AddSample(pFilm, L); arena.Reset()
TileAddSampleOf(k) ==
    /\ rpc = "tiles"
    /\ tileWorkers[k].pc = "connected"
    /\ tileWorkers' = [tileWorkers EXCEPT ![k].pc = "sample",
                                          ![k].sampleIndex = @ + 1]
    /\ users' = Used({FilmTileOf(k), ArenaOf(k)}, k)
    /\ addSamples' = [addSamples EXCEPT ![tileWorkers[k].pPixel] = Append(@, k)]
    /\ UNCHANGED <<job, rpc, sharedWrites>>
    /\ UNCHANGED <<samplerVars, bdptVars, mltVars, misVars, stepVars, roundVars, filmVars>>

\* lines 406-407: film->MergeFilmTile(std::move(filmTile));
\* reporter.Update()
TileMergeOf(k) ==
    /\ rpc = "tiles"
    /\ tileWorkers[k].pc = "pixel"
    /\ tileWorkers[k].pPixel >= TileHi(k)
    /\ tileWorkers' = [tileWorkers EXCEPT ![k].pc = "merged"]
    /\ users' = Used({FilmTileOf(k)}, k)
    /\ sharedWrites' = sharedWrites \cup
          {<<k, "MergeFilmTile">>, <<k, "Update">>}
    /\ UNCHANGED <<job, rpc, addSamples>>
    /\ UNCHANGED <<samplerVars, bdptVars, mltVars, misVars, stepVars, roundVars, filmVars>>

\* lines 409-414: ParallelFor2D has returned, or was not called; the image
\* is written
TilesWriteImage ==
    /\ \/ rpc = "start" /\ ~job.lights
       \/ rpc = "tiles" /\ \A k \in Tiles : tileWorkers[k].pc = "merged"
    /\ rpc' = "written"
    /\ UNCHANGED <<job, tileWorkers, users, addSamples, sharedWrites>>
    /\ UNCHANGED <<samplerVars, bdptVars, mltVars, misVars, stepVars, roundVars, filmVars>>

TileBegin == \E k \in Tiles : TileBeginOf(k)

TilePixel == \E k \in Tiles : TilePixelOf(k)

TileSample == \E k \in Tiles : TileSampleOf(k)

TileConnect == \E k \in Tiles : TileConnectOf(k)

TileAddSample == \E k \in Tiles : TileAddSampleOf(k)

TileMerge == \E k \in Tiles : TileMergeOf(k)

TilesNext ==
    \/ TilesBegin
    \/ TileBegin
    \/ TilePixel
    \/ TileSample
    \/ TileConnect
    \/ TileAddSample
    \/ TileMerge
    \/ TilesWriteImage

SpecTiles == TilesInit /\ [][TilesNext]_vars

\* ------------------------------------------------------------------------
\* SpecMLTLive: Render with its threads scheduled.  Which value a call of
\* L returns does not enter any loop condition of Render, so a call is
\* taken here as one step that may return any radiance, the sampler's
\* draws not followed; the steps between the calls are those of SpecMLT.
\* ------------------------------------------------------------------------
Radiances == {Zero, One}

\* what L(scene, arena, sampler, depth, &pRaster) may leave
LReturns(sampler) ==
    [smp : {sampler}, L : Radiances, pRaster : {<<0, 0>>}]

\* the renders whose termination is checked: two chains and three mutations
MLTLiveRenders ==
    {c \in MLTRenders :
        /\ c.scene \in {PlainScene, UnlitScene}
        /\ c.maxDepth <= 1
        /\ c.nBootstrap = 1
        /\ c.nChains = 2
        /\ c.nTotalMutations = 3
        /\ c.sigma = 1
        /\ c.largeStepProbability = 1
        /\ c.leftFirst}

MLTLiveInit == MLTInit /\ cfg \in MLTLiveRenders

\* lines 196-206 with L returning any value
BootstrapAnyOf(i) ==
    /\ mpc = "bootstrap"
    /\ Len(cfg.scene.lights) > 0
    /\ i \notin bootstrapped
    /\ bootstrapped' = bootstrapped \cup {i}
    /\ \E f \in [0 .. cfg.maxDepth -> Radiances] :
          bootstrapWeights' =
              [k \in 1 .. nBootstrapSamples |->
                  IF (k - 1) \div (cfg.maxDepth + 1) = i
                  THEN f[(k - 1) % (cfg.maxDepth + 1)]
                  ELSE bootstrapWeights[k]]
    /\ bootstrapSamplers' =
          [k \in 1 .. nBootstrapSamples |->
              IF (k - 1) \div (cfg.maxDepth + 1) = i
              THEN NewSampler(k - 1)
              ELSE bootstrapSamplers[k]]
    /\ UNCHANGED <<cfg, mpc, chains, samplers, slog, totalMutations,
                   acceptedMutations>>
    /\ UNCHANGED <<samplerVars, bdptVars, otherVars>>

\* lines 224-240 with L returning any value
ChainStartAnyOf(i) ==
    /\ mpc = "chains"
    /\ Len(cfg.scene.lights) > 0
    /\ chains[i].pc = "new"
    /\ \E index \in {SampleDiscrete(bootstrapWeights,
                                    RngValue(RngAdvance(RNG(i))))} :
       \E e \in LReturns(NewSampler(SamplerSeed(i, index))) :
          /\ chains' = [chains EXCEPT ![i] =
                ChainStarted(@, i, RngAdvance(RNG(i)), index, e)]
          /\ samplers' = [samplers EXCEPT ![SamplerOf(i)] = e.smp]
          /\ slog' = [slog EXCEPT ![SamplerOf(i)] =
                         @ \o << <<i, "new">>, <<i, "L">> >>]
    /\ UNCHANGED <<cfg, mpc, bootstrapWeights, bootstrapSamplers,
                   bootstrapped, totalMutations, acceptedMutations>>
    /\ UNCHANGED <<samplerVars, bdptVars, otherVars>>

\* lines 245-249 with L returning any value
ChainProposeAnyOf(i) ==
    /\ mpc = "chains"
    /\ chains[i].pc = "proposing"
    /\ \E e \in LReturns(samplers[SamplerOf(i)]) :
          /\ samplers' = [samplers EXCEPT ![SamplerOf(i)] = e.smp]
          /\ chains' = [chains EXCEPT
                ![i].pc = "proposed",
                ![i].pProposed = e.pRaster,
                ![i].LProposed = e.L,
                ![i].accept = FracMin(One, FracDiv(e.L, chains[i].LCurrent))]
    /\ slog' = Logged(SamplerOf(i), i, "L")
    /\ UNCHANGED <<cfg, mpc, bootstrapWeights, bootstrapSamplers,
                   bootstrapped, totalMutations, acceptedMutations>>
    /\ UNCHANGED <<samplerVars, bdptVars, otherVars>>

BootstrapAny == \E i \in 0 .. cfg.nBootstrap - 1 : BootstrapAnyOf(i)

ChainStartAny == \E i \in DOMAIN chains : ChainStartAnyOf(i)

ChainProposeAny == \E i \in DOMAIN chains : ChainProposeAnyOf(i)

MLTLiveNext ==
    \/ BootstrapAny
    \/ BuildDistribution
    \/ ChainStartAny
    \/ ChainStartIteration
    \/ ChainProposeAny
    \/ ChainSplat
    \/ ChainDecide
    \/ ChainEnd
    \/ WriteImage

\* ParallelFor returns when every iteration has run, and a thread that can
\* take a step takes one
SpecMLTLive == MLTLiveInit /\ [][MLTLiveNext]_vars /\ WF_vars(MLTLiveNext)

\* ------------------------------------------------------------------------
\* SpecMIS: MISWeight (bdpt.cpp:230-294) applied to every strategy (s, t)
\* that generates one full path.  The path is fixed first; its two subpaths
\* are the ones RandomWalk builds when the rays meet what lies on the path,
\* and the strategies are weighed in any order.
\* ------------------------------------------------------------------------
MaxPathLength == 5

\* what lies at the inner vertices of a path: nothing specular
InteriorKinds == {"diffuse", "fog"}

\* the paths checked, from an area light to the camera
FullPaths ==
    {p \in UNION {[1 .. n -> InteriorKinds \cup {"area", "camera"}] :
                     n \in 2 .. MaxPathLength} :
        /\ p[1] = "area"
        /\ p[Len(p)] = "camera"
        /\ \A i \in 2 .. Len(p) - 1 : p[i] \in InteriorKinds}

\* a scene in which every ray meets the given thing, nothing is occluded and
\* no sample is degenerate
StepScene(kind) ==
    [rays |-> <<kind>>, lights |-> <<"area">>,
     grazing |-> FALSE, perpendicular |-> FALSE, occluded |-> FALSE]

\* RandomWalk's locals after its rays have met, in turn, the things listed
RECURSIVE Walked(_, _)
Walked(w, kinds) ==
    IF kinds = << >> \/ w.done THEN w
    ELSE Walked(WalkIteration(StepScene(Head(kinds)), w, <<0, 0>>), Tail(kinds))

\* the things a camera subpath of the path p meets after the camera: the
\* path reversed, and at its end the emitting surface of the light
CameraKinds(p) ==
    [i \in 1 .. Len(p) - 1 |->
        IF i = Len(p) - 1 THEN "lamp" ELSE p[Len(p) - i]]

\* GenerateCameraSubpath for the whole of p
CameraSubpathOf(p) ==
    Walked(CameraWalk(<<0, 0>>, Len(p)), CameraKinds(p)).path

\* GenerateLightSubpath for all of p but the camera
LightSubpathOf(p) ==
    LightFinish(Walked(LightWalk(p[1], <<0, 0>>, Len(p) - 1),
                       SubSeq(p, 2, Len(p) - 1)).path)

\* the vertex ConnectBDPT samples for the strategy (lines 445-488), if any
SampledFor(light, camera, s, t) ==
    Connection(StepScene("diffuse"), light, camera, s, t, <<0, 0>>, 0,
               <<0, 0>>).sampled

\* what MISWeight returns for the strategy (s, Len(p) - s) of the path p
WeightOn(light, camera, s, t) ==
    MISWeight(light, camera, SampledFor(light, camera, s, t), s, t).weight

StrategyWeight(p, s) ==
    WeightOn(LightSubpathOf(p), CameraSubpathOf(p), s, Len(p) - s)

MISInit ==
    /\ fullPath \in FullPaths
    /\ misWeights = [s \in {} |-> Zero]
    /\ SamplerUnused
    /\ BDPTUnused
    /\ MLTUnused
    /\ StepUnused
    /\ TilesUnused
    /\ RoundsUnused
    /\ FilmsUnused

\* MISWeight called for one more strategy of the path, t >= 1
Weigh ==
    /\ \E s \in (0 .. Len(fullPath) - 1) \ DOMAIN misWeights :
          misWeights' = [k \in DOMAIN misWeights \cup {s} |->
                            IF k = s THEN StrategyWeight(fullPath, s)
                            ELSE misWeights[k]]
    /\ UNCHANGED fullPath
    /\ UNCHANGED <<samplerVars, bdptVars, mltVars, stepVars, tileVars, roundVars, filmVars>>

MISNext == Weigh

SpecMIS == MISInit /\ [][MISNext]_vars

\* ------------------------------------------------------------------------
\* MISWeight in Float arithmetic.  Float has a largest finite value; a
\* result above it is +infinity and a positive result below its reciprocal
\* is 0.  Rounding inside that range is not modelled.  The range is scaled
\* down with the densities: the densities of the paths checked are at most
\* FloatMax, their products need not be.
\* ------------------------------------------------------------------------
FloatMax == 8

\* the Float an operation gives for the exact result x
FloatOf(x) ==
    IF x[2] = 0 THEN x
    ELSE IF x[1] > FloatMax * x[2] THEN <<1, 0>>
    ELSE IF x[1] > 0 /\ x[1] * FloatMax < x[2] THEN Zero
    ELSE x

\* lines 276-283: the camera loop from vertex i (code index) down to 1, with
\* ri and sumRi as they stand
RECURSIVE CameraLoop(_, _, _, _)
CameraLoop(camera, i, ri, sumRi) ==
    IF i <= 0 THEN sumRi
    ELSE LET r == FloatOf(FracMul(ri,
                      FloatOf(Frac(remap0(camera[i + 1].pdfRev),
                                   remap0(camera[i + 1].pdfFwd)))))
         IN  CameraLoop(camera, i - 1, r,
                 IF ~camera[i + 1].delta /\ ~camera[i].delta
                 THEN FloatOf(FracAdd(sumRi, r)) ELSE sumRi)

\* lines 285-292: the light loop from vertex i down to 0
RECURSIVE LightLoop(_, _, _, _)
LightLoop(light, i, ri, sumRi) ==
    IF i < 0 THEN sumRi
    ELSE LET r == FloatOf(FracMul(ri,
                      FloatOf(Frac(remap0(light[i + 1].pdfRev),
                                   remap0(light[i + 1].pdfFwd)))))
             deltaLightvertex == IF i > 0 THEN light[i].delta
                                 ELSE IsDeltaLight(light[1])
         IN  LightLoop(light, i - 1, r,
                 IF ~light[i + 1].delta /\ ~deltaLightvertex
                 THEN FloatOf(FracAdd(sumRi, r)) ELSE sumRi)

\* line 293: 1 / (1 + sumRi)
FloatWeight(mem, s, t) ==
    FloatOf(FracDiv(One,
        FloatOf(FracAdd(One,
            LightLoop(mem.light, s - 1, One,
                      CameraLoop(mem.camera, t - 1, One, Zero))))))

\* MISWeight as the Float code computes it
MISWeightFloat(light, camera, sampled, s, t) ==
    IF s + t = 2 THEN One
    ELSE FloatWeight(MISWeightUpdates(light, camera, sampled, s, t).mem, s, t)

\* the densities MISWeight reads for the strategy: after the updates, the
\* pdfFwd and pdfRev of every vertex of the two subpaths
DensitiesRead(light, camera, sampled, s, t) ==
    LET mem == MISWeightUpdates(light, camera, sampled, s, t).mem
    IN  {mem.camera[i].pdfFwd : i \in 1 .. t} \cup
        {mem.camera[i].pdfRev : i \in 1 .. t} \cup
        {mem.light[i].pdfFwd : i \in 1 .. s} \cup
        {mem.light[i].pdfRev : i \in 1 .. s}

\* MISWeight called in Float arithmetic for one more strategy of the path
WeighFloat ==
    /\ \E s \in (0 .. Len(fullPath) - 1) \ DOMAIN misWeights :
          misWeights' = [k \in DOMAIN misWeights \cup {s} |->
              IF k = s
              THEN MISWeightFloat(LightSubpathOf(fullPath),
                       CameraSubpathOf(fullPath),
                       SampledFor(LightSubpathOf(fullPath),
                                  CameraSubpathOf(fullPath), s,
                                  Len(fullPath) - s),
                       s, Len(fullPath) - s)
              ELSE misWeights[k]]
    /\ UNCHANGED fullPath
    /\ UNCHANGED <<samplerVars, bdptVars, mltVars, stepVars, tileVars, roundVars, filmVars>>

MISFloatNext == WeighFloat

SpecMISFloat == MISInit /\ [][MISFloatNext]_vars

\* ------------------------------------------------------------------------
\* SpecSmallStep: the mutation of one primary sample (mlt.cpp:115-129) in
\* floating-point arithmetic.  A Float here has Precision significant bits
\* and is a whole number of units of 2^-FracBits; every operation rounds its
\* exact result to the nearest Float, ties to the even significand.  On the
\* grid of the sampler above every sum is a whole number of grid steps and
\* no rounding takes place; here the values between the grid's are taken too.
\* ------------------------------------------------------------------------
Precision == 3

FracBits == 6

RECURSIVE Pow2(_)
Pow2(n) == IF n = 0 THEN 1 ELSE 2 * Pow2(n - 1)

\* 1.0f in units
FloatOne == Pow2(FracBits)

\* the spacing of the Floats around the magnitude m
RECURSIVE Ulp(_)
Ulp(m) == IF m < Pow2(Precision) THEN 1 ELSE 2 * Ulp(m \div 2)

\* the Float nearest to the magnitude m
RoundMagnitude(m) ==
    LET u == Ulp(m)
        lo == (m \div u) * u
    IN  IF 2 * (m - lo) < u THEN lo
        ELSE IF 2 * (m - lo) > u THEN lo + u
        ELSE IF (lo \div u) % 2 = 0 THEN lo ELSE lo + u

FloatRound(x) == IF x >= 0 THEN RoundMagnitude(x) ELSE 0 - RoundMagnitude(0 - x)

\* std::floor
FloatFloor(x) == (x \div FloatOne) * FloatOne

\* the Floats x with lo <= x < hi
Floats(lo, hi) == {x \in lo .. hi - 1 : FloatRound(x) = x}

\* what rng.UniformFloat() returns: a Float in [0, 1)
UniformFloats == Floats(0, FloatOne)

\* the values normalSample * effSigma takes: up to two units either way
Perturbations == Floats(0 - 2 * FloatOne, 2 * FloatOne + 1)

\* lines 127-128: Xi.value += normalSample * effSigma;
\* Xi.value -= std::floor(Xi.value)
SmallStepValue(x, delta) ==
    FloatRound(FloatRound(x + delta) - FloatFloor(FloatRound(x + delta)))

\* a new element of X, value-initialised
StepInit ==
    /\ XiValue = 0
    /\ perturbation = "new"
    /\ SamplerUnused
    /\ BDPTUnused
    /\ MLTUnused
    /\ MISUnused
    /\ TilesUnused
    /\ RoundsUnused
    /\ FilmsUnused

\* lines 107-111 and 116-117: Xi.value = rng.UniformFloat()
LargeStep ==
    /\ XiValue' \in UniformFloats
    /\ perturbation' = "large"
    /\ UNCHANGED <<samplerVars, bdptVars, mltVars, misVars, tileVars, roundVars, filmVars>>

\* lines 118-129: a small step
SmallStep ==
    /\ \E delta \in Perturbations :
          /\ XiValue' = SmallStepValue(XiValue, delta)
          /\ perturbation' = delta
    /\ UNCHANGED <<samplerVars, bdptVars, mltVars, misVars, tileVars, roundVars, filmVars>>

StepNext == LargeStep \/ SmallStep

SpecSmallStep == StepInit /\ [][StepNext]_vars

\* ------------------------------------------------------------------------
\* SpecSplit: the split of the mutations between the chains
\* (mlt.cpp:216-226), the chains' shares computed in any order.  cfg holds
\* nTotalMutations and nChains only, and chains the shares computed so far:
\* the first mutation index and the count of each chain.
\* ------------------------------------------------------------------------
MaxMutations == 9

MaxChains == 4

SplitInit ==
    /\ cfg \in [nTotalMutations : 0 .. MaxMutations, nChains : 1 .. MaxChains]
    /\ chains = [i \in {} |-> 0]
    /\ mpc = "chains"
    /\ bootstrapWeights = 0
    /\ bootstrapSamplers = 0
    /\ bootstrapped = 0
    /\ samplers = 0
    /\ slog = 0
    /\ totalMutations = 0
    /\ acceptedMutations = 0
    /\ SamplerUnused
    /\ BDPTUnused
    /\ OthersUnused

\* lines 224-226 and 266: chain i's nChainMutations and the global index
\* i * nTotalMutations / nChains of its first mutation
Share(i) ==
    [first |-> (i * cfg.nTotalMutations) \div cfg.nChains,
     nChainMutations |-> ChainMutations(i)]

SplitChain ==
    /\ \E i \in (0 .. cfg.nChains - 1) \ DOMAIN chains :
          chains' = [k \in DOMAIN chains \cup {i} |->
                        IF k = i THEN Share(i) ELSE chains[k]]
    /\ UNCHANGED <<cfg, mpc, bootstrapWeights, bootstrapSamplers, bootstrapped,
                   samplers, slog, totalMutations, acceptedMutations>>
    /\ UNCHANGED <<samplerVars, bdptVars, otherVars>>

SplitNext == SplitChain

SpecSplit == SplitInit /\ [][SplitNext]_vars

\* ------------------------------------------------------------------------
\* SpecProgress: the bootstrap loop and its progress reports
\* (mlt.cpp:189-210).  cfg holds nBootstrap and maxDepth only, bootstrapped
\* the candidates done, bootstrapWeights the entries written so far and slog
\* the calls made on the ProgressReporter.  The candidates are taken in
\* index order, as one thread takes them; the order does not enter the
\* progress condition.  The luminance L returns for a candidate is a
\* function of its seed, the scene being fixed.
\* ------------------------------------------------------------------------
MaxBootstrap == 513

\* the literal of line 207
BootstrapProgressPeriod == 256

\* the condition with the sum parenthesised: ((i + 1) % 256) == 0
ProgressDueEvery(i) == ((i + 1) % BootstrapProgressPeriod) = 0

\* line 207 as written: (i + 1 % 256) == 0, where % binds tighter than +
ProgressDue(i) == (i + (1 % BootstrapProgressPeriod)) = 0

\* lines 199-204: the luminance stored for the sampler seeded rngIndex
CandidateLuminance(rngIndex) == <<RngValue(RngAdvance(RNG(rngIndex))), 1>>

\* lines 198-205: the entries candidate i writes, one for each depth
CandidateWeights(i) ==
    [d \in 1 .. cfg.maxDepth + 1 |->
        CandidateLuminance(i * (cfg.maxDepth + 1) + d - 1)]

ProgressInit ==
    /\ cfg \in [nBootstrap : {1, BootstrapProgressPeriod - 1,
                              BootstrapProgressPeriod, MaxBootstrap},
                maxDepth : {0, 1}]
    /\ mpc = "bootstrap"
    /\ bootstrapped = {}
    /\ bootstrapWeights = << >>
    /\ slog = << >>
    /\ bootstrapSamplers = 0
    /\ chains = 0
    /\ samplers = 0
    /\ totalMutations = 0
    /\ acceptedMutations = 0
    /\ SamplerUnused
    /\ BDPTUnused
    /\ OthersUnused

\* lines 196-208: the body of the loop for the next candidate
BootstrapCandidate ==
    /\ mpc = "bootstrap"
    /\ Cardinality(bootstrapped) < cfg.nBootstrap
    /\ \E i \in {Cardinality(bootstrapped)} :
          /\ bootstrapped' = bootstrapped \cup {i}
          /\ bootstrapWeights' = bootstrapWeights \o CandidateWeights(i)
          /\ slog' = IF ProgressDue(i) THEN Append(slog, <<"Update", i>>)
                     ELSE slog
    /\ UNCHANGED <<cfg, mpc, bootstrapSamplers, chains, samplers,
                   totalMutations, acceptedMutations>>
    /\ UNCHANGED <<samplerVars, bdptVars, otherVars>>

\* line 210: progress.Done()
BootstrapDone ==
    /\ mpc = "bootstrap"
    /\ Cardinality(bootstrapped) = cfg.nBootstrap
    /\ mpc' = "chains"
    /\ slog' = Append(slog, <<"Done", cfg.nBootstrap>>)
    /\ UNCHANGED <<cfg, bootstrapWeights, bootstrapped, bootstrapSamplers,
                   chains, samplers, totalMutations, acceptedMutations>>
    /\ UNCHANGED <<samplerVars, bdptVars, otherVars>>

ProgressNext == BootstrapCandidate \/ BootstrapDone

SpecProgress == ProgressInit /\ [][ProgressNext]_vars

\* ------------------------------------------------------------------------
\* SpecFilms: the debug films of BDPTIntegrator::Render, allocated before
\* the tiles and indexed by the strategy loops of one camera sample
\* ------------------------------------------------------------------------
MaxFilmDepth == 3

\* the index with the depths packed one slot too tightly
BufferIndexPacked(s, t) ==
    LET above == s + t - 2
    IN  s + (above * (3 + above)) \div 2

\* BufferIndex(s, t) (bdpt.cpp:297-300)
BufferIndex(s, t) ==
    LET above == s + t - 2
    IN  s + (above * (5 + above)) \div 2

\* a null entry of weightFilms
NoFilm == << >>

\* the film made for bdpt_d<depth>_s<s>_t<t>.exr
FilmOf(depth, s, t) == <<depth, s, t>>

Visualizing == visualize.strategies \/ visualize.weights

FilmsInit ==
    /\ maxDepth \in 0 .. MaxFilmDepth
    /\ visualize \in [strategies : BOOLEAN, weights : BOOLEAN]
    /\ bufferCount = ((1 + maxDepth) * (6 + maxDepth)) \div 2
    /\ weightFilms = << >>
    /\ alloc = [depth |-> 0, s |-> 0]
    /\ filmUses = {}
    /\ pc = "allocate"
    /\ nCamera = 0
    /\ nLight = 0
    /\ st = [s |-> 0, t |-> 1]
    /\ scene = 0
    /\ sampleIndex = 0
    /\ pFilm = 0
    /\ walk = 0
    /\ cameraVertices = 0
    /\ lightVertices = 0
    /\ L = 0
    /\ calls = 0
    /\ added = 0
    /\ splats = 0
    /\ tileSamples = 0
    /\ last = 0
    /\ totalPaths = 0
    /\ zeroRadiancePaths = 0
    /\ SamplerUnused
    /\ MLTUnused
    /\ MISUnused
    /\ StepUnused
    /\ TilesUnused
    /\ RoundsUnused

FilmsRest ==
    <<scene, maxDepth, sampleIndex, pFilm, walk, cameraVertices, lightVertices,
      L, calls, added, splats, tileSamples, last, totalPaths, zeroRadiancePaths,
      visualize, bufferCount>>

\* one turn of the inner allocation loop (bdpt.cpp:318-330)
AllocateFilm ==
    /\ pc = "allocate"
    /\ Visualizing
    /\ alloc.depth <= maxDepth
    /\ \E t \in {alloc.depth + 2 - alloc.s} :
          IF t = 0 \/ (alloc.s = 1 /\ t = 1)
          THEN UNCHANGED weightFilms
          ELSE weightFilms' =
                 [i \in DOMAIN weightFilms \cup {BufferIndex(alloc.s, t)} |->
                     IF i = BufferIndex(alloc.s, t)
                     THEN FilmOf(alloc.depth, alloc.s, t)
                     ELSE weightFilms[i]]
    /\ alloc' = IF alloc.s < alloc.depth + 2
                THEN [alloc EXCEPT !.s = @ + 1]
                ELSE [depth |-> alloc.depth + 1, s |-> 0]
    /\ UNCHANGED <<pc, nCamera, nLight, st, filmUses>>
    /\ UNCHANGED FilmsRest
    /\ UNCHANGED <<samplerVars, mltVars, misVars, stepVars, tileVars, roundVars>>

\* the allocation is over, or was not asked for
AllocateDone ==
    /\ pc = "allocate"
    /\ ~Visualizing \/ alloc.depth > maxDepth
    /\ pc' = "sample"
    /\ UNCHANGED <<nCamera, nLight, st, weightFilms, alloc, filmUses>>
    /\ UNCHANGED FilmsRest
    /\ UNCHANGED <<samplerVars, mltVars, misVars, stepVars, tileVars, roundVars>>

\* the two subpaths of a camera sample: GenerateCameraSubpath returns 1 to
\* maxDepth + 2 vertices, GenerateLightSubpath 0 to maxDepth + 1
FilmSubpaths ==
    /\ pc = "sample"
    /\ nCamera' \in 1 .. (maxDepth + 2)
    /\ nLight' \in 0 .. (maxDepth + 1)
    /\ st' = [s |-> 0, t |-> 1]
    /\ pc' = "connect"
    /\ UNCHANGED <<weightFilms, alloc, filmUses>>
    /\ UNCHANGED FilmsRest
    /\ UNCHANGED <<samplerVars, mltVars, misVars, stepVars, tileVars, roundVars>>

\* one turn of the strategy loops (bdpt.cpp:369-393)
FilmStrategy ==
    /\ pc = "connect"
    /\ st.t <= nCamera
    /\ st' = NextStrategy(st.s, st.t)
    /\ IF ~Skipped(st.s, st.t) /\ Visualizing
       THEN filmUses' = filmUses \cup
               {[s |-> st.s, t |-> st.t, index |-> BufferIndex(st.s, st.t),
                 film |-> IF BufferIndex(st.s, st.t) \in DOMAIN weightFilms
                          THEN weightFilms[BufferIndex(st.s, st.t)]
                          ELSE NoFilm]}
       ELSE UNCHANGED filmUses
    /\ UNCHANGED <<pc, nCamera, nLight, weightFilms, alloc>>
    /\ UNCHANGED FilmsRest
    /\ UNCHANGED <<samplerVars, mltVars, misVars, stepVars, tileVars, roundVars>>

FilmSampleDone ==
    /\ pc = "connect"
    /\ st.t > nCamera
    /\ pc' = "done"
    /\ UNCHANGED <<nCamera, nLight, st, weightFilms, alloc, filmUses>>
    /\ UNCHANGED FilmsRest
    /\ UNCHANGED <<samplerVars, mltVars, misVars, stepVars, tileVars, roundVars>>

FilmsNext ==
    \/ AllocateFilm
    \/ AllocateDone
    \/ FilmSubpaths
    \/ FilmStrategy
    \/ FilmSampleDone

SpecFilms == FilmsInit /\ [][FilmsNext]_vars

\* ------------------------------------------------------------------------
\* Properties of the sampler
\* ------------------------------------------------------------------------

\* coordinate i (numbered from 0) of the first instance
Coord(i) == smp[1].X[i + 1]

RestoredToSnapshot(i) ==
    /\ Coord(i).value = snap[i].value
    /\ Coord(i).lastModificationIteration = snap[i].lastModificationIteration

\* C2 as stated: after StartIteration, any sequence of StartStream/Get1D/Get2D
\* calls and Reject, every coordinate requested in the iteration holds the
\* value and last-modification iteration it had immediately before its first
\* mutation in the iteration, and currentIteration is back to its value
\* before StartIteration.
C2_RejectRestoresAll ==
    lastOp = "Reject" =>
        /\ smp[1].currentIteration = iterBase
        /\ \A i \in DOMAIN touches : RestoredToSnapshot(i)

\* C2 amended: after StartIteration, any sequence of StartStream/Get1D/Get2D
\* calls and Reject, currentIteration is back to its value before
\* StartIteration and every coordinate requested exactly once in the
\* iteration holds the value and last-modification iteration it had
\* immediately before its mutation (after the lazy reset, if one took place).
C2_RejectRestoresRequestedOnce ==
    lastOp = "Reject" =>
        /\ smp[1].currentIteration = iterBase
        /\ \A i \in DOMAIN touches : touches[i] = 1 => RestoredToSnapshot(i)

\* a rejected iteration that requested two coordinates once each, one of
\* them after a lazy reset
C2_Witness ==
    /\ lastOp = "Reject"
    /\ smp[1].lastLargeStepIteration > 0
    /\ \E i, j \in DOMAIN touches :
          /\ i # j
          /\ touches[i] = 1 /\ touches[j] = 1
          /\ Coord(i).lastModificationIteration = smp[1].lastLargeStepIteration

WeighedLast == last.called /\ last.misCalls = 1

\* the subpaths are as they were before the last call of ConnectBDPT
SubpathsAsBefore ==
    /\ lightVertices = last.light
    /\ cameraVertices = last.camera

\* C1: whenever ConnectBDPT has called MISWeight, for any strategy (s, t)
\* and sampled vertex (the early return for s + t = 2 included), every vertex
\* of lightVertices and cameraVertices is afterwards what it was before the
\* call: delta flags, pdfRev values and the slot given to the sampled vertex
\* are all restored.
C1_MISWeightRestoresSubpaths == WeighedLast => SubpathsAsBefore

\* C1 witness: MISWeight was called for a strategy with s = 1 and t > 1
\* whose sampled light vertex differs from the vertex stored in the slot it
\* took, and whose connection vertices had pdfRev values to overwrite
C1_Witness ==
    /\ WeighedLast
    /\ last.s = 1
    /\ last.t > 1
    /\ last.sampled # last.light[1]
    /\ last.camera[last.t - 1].pdfRev # 0
    /\ SubpathsAsBefore

\* the pairs (s, t) with 0 <= s <= nLight, 1 <= t <= nCamera and
\* 0 <= s + t - 2 <= maxDepth
ValidPairs ==
    {q \in (0 .. nLight) \X (1 .. nCamera) :
        q[1] + q[2] - 2 >= 0 /\ q[1] + q[2] - 2 <= maxDepth}

\* the number of calls of ConnectBDPT made for the pair q this sample
CallCount(q) == Cardinality({i \in DOMAIN calls : calls[i].s = q[1] /\ calls[i].t = q[2]})

\* the strategy loops of the sample have ended
StrategiesDone == pc = "connect" /\ st.t > nCamera

\* C7 as stated: when the strategy loops of a pixel sample end, ConnectBDPT
\* has been called exactly once for every pair (s, t) with 0 <= s <= nLight,
\* 1 <= t <= nCamera and 0 <= s + t - 2 <= maxDepth, and for no other pair.
C7_EveryValidPairOnce ==
    /\ \A i \in DOMAIN calls : <<calls[i].s, calls[i].t>> \in ValidPairs
    /\ StrategiesDone => \A q \in ValidPairs : CallCount(q) = 1

\* C7 amended: the same for every such pair other than (1, 1), and never
\* for (1, 1) nor for a pair outside the ranges.
C7_EveryValidPairButOneOneOnce ==
    /\ \A i \in DOMAIN calls :
          <<calls[i].s, calls[i].t>> \in ValidPairs \ {<<1, 1>>}
    /\ \A q \in ValidPairs : CallCount(q) <= 1
    /\ StrategiesDone => \A q \in ValidPairs \ {<<1, 1>>} : CallCount(q) = 1

\* C7 witness: the loops have ended for subpaths that make (1, 1) and a pair
\* with s > 1 and t > 1 valid, with calls made
C7_Witness ==
    /\ StrategiesDone
    /\ <<1, 1>> \in ValidPairs
    /\ <<2, 2>> \in ValidPairs
    /\ CallCount(<<2, 2>>) = 1
    /\ CallCount(<<1, 1>>) = 0

RECURSIVE SumOf(_)
SumOf(seq) ==
    IF seq = << >> THEN Zero
    ELSE FracAdd(SumOf(SubSeq(seq, 1, Len(seq) - 1)), seq[Len(seq)].v)

\* C8: within a pixel sample, the contribution of every call with t = 1 is
\* splatted once on the film, at the raster position ConnectBDPT produced,
\* and is not added to L; the contribution of every call with t # 1 is
\* added once to L and is not splatted; L is the sum of what was added; and
\* each finished sample has added L to the film tile once, at its pFilm.
C8_SplatOrAccumulate ==
    /\ \A i \in DOMAIN calls :
          LET c == calls[i]
              inSplats == {j \in DOMAIN splats : splats[j].s = c.s /\ splats[j].t = c.t}
              inAdded == {j \in DOMAIN added : added[j].s = c.s /\ added[j].t = c.t}
          IN  IF c.t = 1
              THEN /\ inAdded = {}
                   /\ Cardinality(inSplats) = 1
                   /\ \A j \in inSplats : splats[j].p = c.p /\ splats[j].v = c.v
              ELSE /\ inSplats = {}
                   /\ Cardinality(inAdded) = 1
                   /\ \A j \in inAdded : added[j].v = c.v
    /\ Len(splats) + Len(added) = Len(calls)
    /\ L = SumOf(added)
    /\ pc \in {"pixel", "camera", "light", "connect", "written"}
          => Len(tileSamples) = sampleIndex
    /\ (pc \in {"pixel", "written"} /\ sampleIndex >= 1)
          => tileSamples[sampleIndex] = [p |-> pFilm, v |-> L]

\* C8 witness: a sample has been added to the tile with non-zero L after a
\* t = 1 strategy splatted a non-zero contribution away from pFilm
C8_Witness ==
    /\ pc = "pixel"
    /\ sampleIndex = 1
    /\ L # Zero
    /\ \E j \in DOMAIN splats : splats[j].v # Zero /\ splats[j].p # pFilm

\* C9: after a call of ConnectBDPT that was not rejected a priori, MISWeight
\* has been called only if the unweighted contribution L is non-zero; and
\* if L is zero the weight reported is 0, the contribution returned is zero
\* and both subpaths are as before the call.
C9_ZeroSkipsMISWeight ==
    (last.called /\ ~last.rejected) =>
        /\ last.misCalls = 1 => last.L # 0
        /\ last.L = 0 =>
              /\ last.misCalls = 0
              /\ last.misWeight = Zero
              /\ last.Lpath = Zero
              /\ SubpathsAsBefore

\* C9 witness: a connection with s = 1 drew its samples and evaluated to
\* zero, on subpaths whose vertices MISWeight would have overwritten
C9_Witness ==
    /\ last.called
    /\ ~last.rejected
    /\ last.L = 0
    /\ last.s = 1
    /\ last.draws > 0
    /\ last.camera[last.t - 1].pdfRev # 0
    /\ last.misCalls = 0

\* the last call of ConnectBDPT met the condition of the a-priori test
RejectedCase ==
    /\ last.called
    /\ last.t > 1
    /\ last.s # 0
    /\ last.camera[last.t].type = "Light"

\* C10: a call of ConnectBDPT with t > 1, s # 0 and cameraVertices[t - 1] of
\* type Light returns zero having drawn nothing from the sampler, having
\* evaluated no BSDF, density or visibility, not having called MISWeight,
\* and leaves both subpaths and the raster position unchanged.
C10_RejectedBeforeAnyWork ==
    RejectedCase =>
        /\ last.Lpath = Zero
        /\ last.draws = 0
        /\ last.evaluations = 0
        /\ last.misCalls = 0
        /\ last.pRaster = pFilm
        /\ SubpathsAsBefore

\* C10 witness: such a call was made with s = 1, a strategy that otherwise
\* draws a light and a direction
C10_Witness ==
    /\ RejectedCase
    /\ last.s = 1
    /\ last.rejected

\* ------------------------------------------------------------------------
\* Properties of MLTIntegrator::Render
\* ------------------------------------------------------------------------

\* the calls made on sampler object k follow the pattern: construction, the
\* initial L, then StartIteration, L and one of Accept and Reject, repeated
AlternatesStrictly(k) ==
    \A m \in 1 .. Len(slog[k]) :
        LET call == slog[k][m][2]
        IN  IF m = 1 THEN call = "new"
            ELSE IF m = 2 THEN call = "L"
            ELSE IF (m - 3) % 3 = 0 THEN call = "StartIteration"
            ELSE IF (m - 3) % 3 = 1 THEN call = "L"
            ELSE call \in {"Accept", "Reject"}

\* every call made on sampler object k was made by the same chain
UsedByOneChain(k) ==
    \A m, n \in 1 .. Len(slog[k]) : slog[k][m][1] = slog[k][n][1]

\* the iterations of sampler object k started and not yet accepted or rejected
InFlight(k) ==
    Cardinality({m \in 1 .. Len(slog[k]) : slog[k][m][2] = "StartIteration"})
    - Cardinality({m \in 1 .. Len(slog[k]) :
                      slog[k][m][2] \in {"Accept", "Reject"}})

\* C4: on every sampler of the chain phase of MLTIntegrator::Render, each
\* StartIteration is followed by exactly one evaluation of L and then exactly
\* one of Accept and Reject before the next StartIteration; the sampler is used
\* by one chain only and has at most one iteration in flight.
C4_ChainsAlternateStrictly ==
    \A k \in DOMAIN slog :
        /\ AlternatesStrictly(k)
        /\ UsedByOneChain(k)
        /\ InFlight(k) \in {0, 1}

\* C4 witness: two chains are both in the middle of an iteration, one of them
\* after a finished iteration of its own
C4_Witness ==
    /\ mpc = "chains"
    /\ cfg.nChains = 2
    /\ chains[0].pc = "proposed"
    /\ chains[1].pc = "proposing"
    /\ chains[1].j > 0
    /\ InFlight(0) = 1
    /\ InFlight(1) = 1

\* C5 as stated: in every step of a chain both samples are splatted, the
\* proposed one at pProposed with weight accept / luminance(LProposed) and the
\* current one at pCurrent with weight (1 - accept) / luminance(LCurrent), and
\* the luminance splatted in the step is exactly 1.
C5_BothSplattedTotalOne ==
    \A i \in DOMAIN chains :
        chains[i].pc = "splatted" =>
            LET c == chains[i]
            IN  /\ Len(c.splats) = 2
                /\ c.splats[1].p = c.pProposed
                /\ c.splats[1].v =
                      FracMul(c.LProposed, FracDiv(c.accept, c.LProposed))
                /\ c.splats[2].p = c.pCurrent
                /\ c.splats[2].v =
                      FracMul(c.LCurrent,
                              FracDiv(FracSub(One, c.accept), c.LCurrent))
                /\ FracAdd(c.splats[1].v, c.splats[2].v) = One

\* chain i has its initial sample and has not started an iteration yet
AtInitialSample(i) == chains[i].pc = "idle" /\ chains[i].j = 0

\* chain i's initial sample is the bootstrap candidate stored at its
\* bootstrapIndex
ReplaysCandidate(i) ==
    /\ chains[i].depth = chains[i].bootstrapIndex % (cfg.maxDepth + 1)
    /\ samplers[SamplerOf(i)] = bootstrapSamplers[chains[i].bootstrapIndex + 1]
    /\ chains[i].LCurrent = bootstrapWeights[chains[i].bootstrapIndex + 1]

\* a step leaves the depth and the bootstrapIndex of every started chain as
\* they were
DepthKept ==
    \A i \in DOMAIN chains :
        chains[i].pc # "new" =>
            /\ chains'[i].depth = chains[i].depth
            /\ chains'[i].bootstrapIndex = chains[i].bootstrapIndex

\* C6: the initial sample of every chain, rebuilt from its bootstrapIndex, is
\* the bootstrap candidate stored at that index: the same depth, the same
\* sampler state after the same draws, and LCurrent's luminance equal to
\* bootstrapWeights[bootstrapIndex]; the chain's depth never changes
\* afterwards.
C6_InitialSampleReplaysCandidate ==
    /\ [](\A i \in DOMAIN chains : AtInitialSample(i) => ReplaysCandidate(i))
    /\ [][DepthKept]_vars

\* C6 witness: a chain other than the one numbered as its bootstrapIndex has
\* rebuilt a candidate of positive luminance at a depth above 0
C6_Witness ==
    \E i \in DOMAIN chains :
        /\ AtInitialSample(i)
        /\ chains[i].bootstrapIndex # i
        /\ chains[i].depth > 0
        /\ chains[i].LCurrent # Zero
        /\ \E k \in DOMAIN bootstrapWeights :
              bootstrapWeights[k] # chains[i].LCurrent

\* ------------------------------------------------------------------------
\* Properties of MISWeight over the strategies of one path
\* ------------------------------------------------------------------------

\* every strategy of the path with t >= 1 has been weighed
AllWeighed == DOMAIN misWeights = 0 .. Len(fullPath) - 1

\* the sum of the weights of the strategies 0 .. s
RECURSIVE WeightSum(_)
WeightSum(s) ==
    IF s < 0 THEN Zero ELSE FracAdd(misWeights[s], WeightSum(s - 1))

\* C11 as stated: for a path without delta vertices or occlusion whose
\* densities do not depend on the strategy, the weights MISWeight returns for
\* all the strategies (s, t), t >= 1, of the path's length sum to exactly 1.
C11_WeightsSumToOne ==
    AllWeighed => WeightSum(Len(fullPath) - 1) = One

\* C11 amended: the same for paths of three vertices or more; for the two
\* strategies (0, 2) and (1, 1) of a path of two vertices MISWeight returns 1
\* each.
C11_WeightsSumToOneFromThree ==
    /\ AllWeighed /\ Len(fullPath) >= 3 => WeightSum(Len(fullPath) - 1) = One
    /\ AllWeighed /\ Len(fullPath) = 2 => misWeights[0] = One /\ misWeights[1] = One

\* C11 witness: all the strategies of a path of four vertices or more, through
\* a surface and a medium, have been weighed, and not all alike
C11_Witness ==
    /\ AllWeighed
    /\ Len(fullPath) >= 4
    /\ \E i, j \in DOMAIN fullPath : fullPath[i] = "diffuse" /\ fullPath[j] = "fog"
    /\ \E a, b \in DOMAIN misWeights : misWeights[a] # misWeights[b]
    /\ \A a \in DOMAIN misWeights : FracLess(Zero, misWeights[a])

\* ------------------------------------------------------------------------
\* Properties of the mutation in float arithmetic
\* ------------------------------------------------------------------------

\* C12 as stated: the value Get1D returns, X[index].value after EnsureReady,
\* lies in [0, 1) after large and small steps alike, whatever the perturbation
\* normalSample * sigma * sqrt(nSmall).
C12_ValueInUnitInterval == 0 <= XiValue /\ XiValue < FloatOne

\* ------------------------------------------------------------------------
\* Properties of the bootstrap phase
\* ------------------------------------------------------------------------

\* the candidate and the depth of entry k (from 1) of bootstrapWeights
CandidateOfEntry(k) == (k - 1) \div (cfg.maxDepth + 1)

DepthOfEntry(k) == (k - 1) % (cfg.maxDepth + 1)

\* entry k holds the luminance of L evaluated at the entry's depth with a
\* sampler seeded with the entry's own index
EntryIs(k, e) ==
    /\ bootstrapWeights[k] = e.L
    /\ bootstrapSamplers[k] = e.smp

WrittenFromOwnSeed(k) ==
    EntryIs(k, MLT_L(cfg.scene, NewSampler(k - 1), DepthOfEntry(k),
                     cfg.leftFirst))

\* a step leaves every entry written before it as it is
WrittenOnce ==
    \A k \in DOMAIN bootstrapWeights :
        CandidateOfEntry(k) \in bootstrapped =>
            bootstrapWeights'[k] = bootstrapWeights[k]

\* C13: in the bootstrap phase every entry of bootstrapWeights is written
\* once, by the loop body of its own candidate, from a sampler seeded with the
\* entry's index i * (maxDepth + 1) + depth: whatever the order in which the
\* candidates are taken, the weights, and with them b, are the same.
C13_BootstrapWeightsDetermined ==
    /\ [](\A k \in DOMAIN bootstrapWeights :
             IF CandidateOfEntry(k) \in bootstrapped
             THEN WrittenFromOwnSeed(k)
             ELSE bootstrapWeights[k] = Zero)
    /\ [](mpc # "bootstrap" /\ Len(cfg.scene.lights) > 0 =>
             bootstrapped = 0 .. cfg.nBootstrap - 1)
    /\ [][WrittenOnce]_vars

\* C13 witness: the candidates were taken out of order, the second of them
\* written and the first not yet, at more than one depth and with a weight
\* that is not zero
C13_Witness ==
    /\ mpc = "bootstrap"
    /\ cfg.maxDepth >= 1
    /\ 1 \in bootstrapped
    /\ 0 \notin bootstrapped
    /\ \E k \in DOMAIN bootstrapWeights :
          /\ bootstrapWeights[k] # Zero
          /\ DepthOfEntry(k) > 0

\* ------------------------------------------------------------------------
\* Properties of the split of the mutations
\* ------------------------------------------------------------------------

\* the global mutation indices chain i works through
IndicesOf(i) ==
    {chains[i].first + j : j \in 0 .. chains[i].nChainMutations - 1}

RECURSIVE SharesSum(_)
SharesSum(i) ==
    IF i < 0 THEN 0 ELSE chains[i].nChainMutations + SharesSum(i - 1)

\* C14: the counts nChainMutations of the chains 0 .. nChains - 1 are not
\* negative, any two differ by at most 1, the chains' ranges of global
\* mutation indices are pairwise disjoint and cover exactly [0, N), and the
\* counts sum to N = nTotalMutations.
C14_MutationsSplitEvenly ==
    DOMAIN chains = 0 .. cfg.nChains - 1 =>
        /\ \A i \in DOMAIN chains : chains[i].nChainMutations >= 0
        /\ \A i, k \in DOMAIN chains :
              chains[i].nChainMutations - chains[k].nChainMutations \in -1 .. 1
        /\ \A i, k \in DOMAIN chains :
              i # k => IndicesOf(i) \cap IndicesOf(k) = {}
        /\ UNION {IndicesOf(i) : i \in DOMAIN chains}
              = 0 .. cfg.nTotalMutations - 1
        /\ SharesSum(cfg.nChains - 1) = cfg.nTotalMutations

\* C14 witness: the shares of three chains or more are computed, the
\* mutations not a multiple of the chains, so that the counts differ
C14_Witness ==
    /\ DOMAIN chains = 0 .. cfg.nChains - 1
    /\ cfg.nChains >= 3
    /\ cfg.nTotalMutations % cfg.nChains # 0
    /\ cfg.nTotalMutations > cfg.nChains
    /\ \E i, k \in DOMAIN chains :
          chains[i].nChainMutations # chains[k].nChainMutations

\* ------------------------------------------------------------------------
\* Properties of the chains' termination
\* ------------------------------------------------------------------------

\* the iterations of chain i that ended in Accept or Reject
Decided(i) ==
    Cardinality({m \in 1 .. Len(slog[SamplerOf(i)]) :
                    slog[SamplerOf(i)][m][2] \in {"Accept", "Reject"}})

\* a chain that has ended ran exactly nChainMutations iterations, each ended
\* by one Accept or Reject
RanItsBudget(i) ==
    chains[i].pc = "ended" =>
        /\ chains[i].j = ChainMutations(i)
        /\ Decided(i) = ChainMutations(i)

\* C15 as stated: when Render finishes totalMutations equals nTotalMutations
\* and acceptedMutations <= totalMutations, every chain having run exactly
\* its nChainMutations iterations.
C15_BudgetCompleted ==
    mpc = "written" =>
        /\ totalMutations = cfg.nTotalMutations
        /\ acceptedMutations <= totalMutations

\* C15 amended: Render finishes; if the scene has a light every chain ends
\* after exactly nChainMutations iterations, each ended by one Accept or
\* Reject, totalMutations equals nTotalMutations and acceptedMutations <=
\* totalMutations; in a scene without lights no chain runs and both counters
\* stay 0.
C15_BudgetCompletedIfLit ==
    /\ <>(mpc = "written")
    /\ [](Len(cfg.scene.lights) > 0 =>
             /\ \A i \in DOMAIN chains : RanItsBudget(i)
             /\ mpc = "written" =>
                   /\ \A i \in DOMAIN chains : chains[i].pc = "ended"
                   /\ totalMutations = cfg.nTotalMutations
                   /\ acceptedMutations <= totalMutations)
    /\ [](Len(cfg.scene.lights) = 0 =>
             totalMutations = 0 /\ acceptedMutations = 0)

\* C15 witness: Render has finished after two chains ran three mutations
\* between them, some accepted and some rejected
C15_Witness ==
    /\ mpc = "written"
    /\ cfg.nChains = 2
    /\ totalMutations = 3
    /\ acceptedMutations > 0
    /\ acceptedMutations < totalMutations

\* ------------------------------------------------------------------------
\* Properties of subpath generation
\* ------------------------------------------------------------------------

\* RandomWalk is running
Walking == pc \in {"camera", "light"}

\* RandomWalk has stored no more than its depth limit, and the callee no
\* more than its own: the walk's path[i] is the caller's path[i + 1]
WalkWithinLimit ==
    Walking =>
        /\ walk.maxDepth = maxDepth - 1
        /\ walk.bounces \in 0 .. walk.maxDepth
        /\ Len(walk.path) = walk.bounces + 1
        /\ Len(walk.path) <= maxDepth

\* the buffer still has the size it was allocated with, and holds vertices
\* only below the count returned
BufferWithin(buffer, n) ==
    /\ Len(buffer) = maxDepth
    /\ n \in 0 .. maxDepth
    /\ \A i \in 1 .. Len(buffer) : i > n => buffer[i] = NoVertex

\* C16: GenerateCameraSubpath, GenerateLightSubpath and RandomWalk called
\* with depth limit n write at most n vertices and return a count in
\* [0, n], so a buffer of n vertices is never written past its end.
C16_SubpathWithinBuffer ==
    /\ WalkWithinLimit
    /\ BufferWithin(cameraVertices, nCamera)
    /\ BufferWithin(lightVertices, nLight)

\* C16 witness: a light subpath that filled its buffer to the last vertex
C16_Witness ==
    /\ pc = "returned"
    /\ maxDepth = MaxDepthLimit
    /\ nLight = maxDepth
    /\ lightVertices[maxDepth] # NoVertex

\* a step that runs one iteration of RandomWalk's loop starts here
InLoop == Walking /\ ~walk.done

\* the iteration that stops the walk does so because the throughput is
\* zero, the ray escaped, the depth limit is reached or the sampled BSDF
\* value or density is zero
StopsForCause ==
    (InLoop /\ walk'.done) =>
        \/ walk'.beta = 0
        \/ Trace(scene, walk.ray) = "escape"
        \/ walk'.bounces >= walk'.maxDepth
        \/ walk'.drew

\* the iteration stops the walk or appends a vertex
StopsOrAppends == InLoop => (walk'.done \/ walk'.appended)

\* the iteration continues the ray past a medium boundary and does nothing
\* else
PassesBoundary ==
    /\ Trace(scene, walk.ray) = "boundary"
    /\ walk'.ray = SpawnRayThrough(walk.ray)
    /\ walk'.path = walk.path
    /\ walk'.beta = walk.beta

StopsAppendsOrPasses ==
    InLoop => (walk'.done \/ walk'.appended \/ PassesBoundary)

StoredByWalk == {walk.path[k] : k \in 2 .. Len(walk.path)}

\* with the throughput zero the iteration stops the walk and stores nothing
BlackStops ==
    (InLoop /\ walk.beta = 0) =>
        /\ walk'.done
        /\ walk'.path = walk.path
        /\ walk'.bounces = walk.bounces

\* C18: once the throughput is zero no further vertex is appended; every
\* vertex stored by RandomWalk has non-zero throughput, and the walk
\* returns the number of vertices stored so far.
C18_NoVertexAfterBlack ==
    /\ [](Walking => \A v \in StoredByWalk : v.beta # 0)
    /\ [](pc = "returned" =>
             /\ \A i \in 2 .. nCamera : cameraVertices[i].beta # 0
             /\ \A i \in 2 .. nLight : lightVertices[i].beta # 0
             /\ walk # NoWalk => nCamera + nLight = Len(walk.path))
    /\ [][BlackStops]_vars

\* C18 witness: a walk that stored a vertex, whose throughput the shading
\* normal correction then made zero below the depth limit, and that has
\* returned the vertices stored until then
C18_Witness ==
    /\ pc = "returned"
    /\ walk # NoWalk
    /\ walk.beta = 0
    /\ Trace(scene, walk.ray) # "absorbed"
    /\ walk.bounces > 0
    /\ walk.bounces < walk.maxDepth
    /\ nCamera + nLight = walk.bounces + 1

\* ------------------------------------------------------------------------
\* Properties of the tile workers
\* ------------------------------------------------------------------------

\* the tile whose bounds hold pixel p
TileOfPixel(p) == p \div TileSize

\* every object of a tile's lambda was used by that tile's worker alone
PrivateToWorker == \A o \in DOMAIN users : users[o] \subseteq {o[2]}

\* the calls pixel p has received came from the worker of its tile, and
\* are no more than n
FromOwner(p, n) ==
    /\ Len(addSamples[p]) <= n
    /\ \A i \in 1 .. Len(addSamples[p]) : addSamples[p][i] = TileOfPixel(p)

\* the calls pixel p has received when the image is written
SamplesDue(p) ==
    IF InsideExclusive(p, job.pixelBounds) THEN job.samplesPerPixel ELSE 0

PdfFwdAsIn(before, after) ==
    \A k \in 1 .. Len(before) : after[k].pdfFwd = before[k].pdfFwd

\* an iteration of RandomWalk keeps the pdfFwd of the vertices stored
WalkKeepsPdfFwd == InLoop => PdfFwdAsIn(walk.path, walk'.path)

\* GenerateCameraSubpath returns the vertices with the pdfFwd they were
\* created with
CameraReturnKeepsPdfFwd ==
    (pc = "camera" /\ walk.done) => PdfFwdAsIn(walk.path, cameraVertices')

\* so does GenerateLightSubpath
LightReturnKeepsPdfFwd ==
    (pc = "light" /\ walk.done) => PdfFwdAsIn(walk.path, lightVertices')

\* GenerateLightSubpath returns the vertices with the pdfFwd they were
\* created with, but for the first two of a subpath that starts on an
\* infinite light
LightReturnKeepsButInfinite ==
    (pc = "light" /\ walk.done) =>
        \A k \in 1 .. Len(walk.path) :
            (k > 2 \/ ~IsInfiniteLight(walk.path[1])) =>
                lightVertices'[k].pdfFwd = walk.path[k].pdfFwd

\* a call of ConnectBDPT, MISWeight included, returns with the pdfFwd of
\* both subpaths as they were
ConnectKeepsPdfFwd ==
    pc = "connect" =>
        /\ PdfFwdAsIn(lightVertices, lightVertices')
        /\ PdfFwdAsIn(cameraVertices, cameraVertices')

\* the arrays while the last call of MISWeight computed its sum
DuringMISWeight ==
    MISWeightUpdates(last.light, last.camera, last.sampled, last.s, last.t)

\* while MISWeight runs no pdfFwd is assigned: the subpaths' vertices have
\* theirs, the sampled vertex standing in the slot of a subpath's one vertex
MISWeightKeepsPdfFwd ==
    (last.misCalls = 1 /\ last.s + last.t > 2) =>
        /\ \A i \in 1 .. Len(DuringMISWeight.scopes) :
              DuringMISWeight.scopes[i].target.field # "pdfFwd"
        /\ \A k \in 1 .. Len(last.light) :
              DuringMISWeight.mem.light[k].pdfFwd =
                  (IF last.s = 1 /\ k = 1 THEN last.sampled.pdfFwd
                   ELSE last.light[k].pdfFwd)
        /\ \A k \in 1 .. Len(last.camera) :
              DuringMISWeight.mem.camera[k].pdfFwd =
                  (IF last.t = 1 /\ k = 1 THEN last.sampled.pdfFwd
                   ELSE last.camera[k].pdfFwd)

\* the vertex ConnectBDPT sampled has the pdfFwd it was created with
SampledAsCreated ==
    last.sampled # NoVertex =>
        last.sampled.pdfFwd =
            (IF last.sampled.type = "Light"
             THEN CreateLight(last.sampled.p, 1, 0).pdfFwd
             ELSE CreateCamera(1).pdfFwd)

\* the light vertex ConnectBDPT sampled for s = 1 has the pdfFwd assigned
\* to it after its creation, the camera vertex sampled for t = 1 the one it
\* was created with
SampledAssignedAfter ==
    last.sampled # NoVertex =>
        last.sampled.pdfFwd =
            (IF last.sampled.type = "Light"
             THEN PdfLightOrigin(last.sampled, last.camera[last.t])
             ELSE CreateCamera(1).pdfFwd)

\* C20 as stated: pdfFwd is assigned once, when the vertex is created, and
\* is never changed afterwards by subpath generation, connection or MIS
\* weighting.
C20_PdfFwdAssignedOnce ==
    /\ [][/\ WalkKeepsPdfFwd
          /\ CameraReturnKeepsPdfFwd
          /\ LightReturnKeepsPdfFwd
          /\ ConnectKeepsPdfFwd]_vars
    /\ [](SampledAsCreated /\ MISWeightKeepsPdfFwd)

\* C20 amended: pdfFwd is assigned when the vertex is created and not
\* changed afterwards by the walk, by connection or by MIS weighting, with
\* two exceptions: GenerateLightSubpath reassigns it for the first two
\* vertices of a subpath that starts on an infinite light, and ConnectBDPT
\* assigns it to the light vertex it samples for s = 1 right after
\* creating that vertex.
C20_PdfFwdKeptButLightEnds ==
    /\ [][/\ WalkKeepsPdfFwd
          /\ CameraReturnKeepsPdfFwd
          /\ LightReturnKeepsButInfinite
          /\ ConnectKeepsPdfFwd]_vars
    /\ [](SampledAssignedAfter /\ MISWeightKeepsPdfFwd)

\* C20 witness: a light subpath of two vertices or more that starts on an
\* infinite light has been generated, and a strategy with s = 1 has
\* sampled a light vertex and been weighted
C20_Witness ==
    /\ pc = "connect"
    /\ nLight >= 2
    /\ IsInfiniteLight(lightVertices[1])
    /\ last.called
    /\ last.s = 1
    /\ last.sampled # NoVertex
    /\ last.misCalls = 1

\* ------------------------------------------------------------------------
\* Properties of the render's configuration
\* ------------------------------------------------------------------------

\* the bootstrap has ended with every candidate of zero luminance
EveryCandidateZero ==
    /\ mpc # "bootstrap"
    /\ Len(cfg.scene.lights) > 0
    /\ \A k \in DOMAIN bootstrapWeights : bootstrapWeights[k] = Zero

\* a chain has begun its work
SomeChainStarted == \E i \in DOMAIN chains : chains[i].pc # "new"

\* C21 as stated: a configuration in which every bootstrap candidate has
\* zero importance is fatal before any rendering work starts: no chain
\* begins and no image is written.
C21_ZeroImportanceFatalBeforeRender ==
    EveryCandidateZero => (~SomeChainStarted /\ mpc # "written")

\* ------------------------------------------------------------------------
\* Properties of the path counters
\* ------------------------------------------------------------------------

\* the last step called ConnectBDPT, which returned zero
ReturnedZero == last.called /\ last.Lpath = Zero

\* the last call incremented totalPaths and zeroRadiancePaths
CountedAsZero == last.totalPaths = 1 /\ last.zeroRadiancePaths = 1

\* the last call incremented totalPaths only
CountedAsPath == last.totalPaths = 1 /\ last.zeroRadiancePaths = 0

\* the last call incremented neither counter
NotCounted == last.totalPaths = 0 /\ last.zeroRadiancePaths = 0

\* C22 as stated: every call of ConnectBDPT that yields a zero contribution
\* returns zero and increments both totalPaths and zeroRadiancePaths, and
\* zeroRadiancePaths <= totalPaths at all times.
C22_EveryZeroCounted ==
    /\ ReturnedZero => CountedAsZero
    /\ zeroRadiancePaths <= totalPaths

\* C22 amended: a call rejected a priori returns zero and increments neither
\* counter; every other call increments totalPaths, and zeroRadiancePaths
\* too exactly when it returns zero; zeroRadiancePaths <= totalPaths at all
\* times.
C22_ZeroCountedUnlessRejected ==
    /\ last.called /\ last.rejected => last.Lpath = Zero /\ NotCounted
    /\ last.called /\ ~last.rejected =>
           IF last.Lpath = Zero THEN CountedAsZero ELSE CountedAsPath
    /\ zeroRadiancePaths <= totalPaths
    /\ zeroRadiancePaths >= 0

\* C22 witness: zero-radiance paths and others have been counted, and the
\* last call, not rejected, returned zero
C22_Witness ==
    /\ ReturnedZero
    /\ ~last.rejected
    /\ 0 < zeroRadiancePaths
    /\ zeroRadiancePaths < totalPaths

\* ------------------------------------------------------------------------
\* Properties of MISWeight for the shortest paths
\* ------------------------------------------------------------------------

\* the last step called ConnectBDPT for a path of two vertices, and
\* MISWeight was called
WeighedTwoVertices == WeighedLast /\ last.s + last.t = 2

\* the vertex v given any densities and delta flag
Revalued(v) ==
    {[v EXCEPT !.pdfFwd = f, !.pdfRev = r, !.delta = d] :
        f \in 0 .. 2, r \in 0 .. 2, d \in BOOLEAN}

\* C23: for a strategy with s + t = 2 MISWeight returns exactly 1 and
\* leaves every vertex of both subpaths as it was, whatever their densities
\* and delta flags.
C23_TwoVerticesWeighOne ==
    /\ WeighedTwoVertices => last.misWeight = One /\ SubpathsAsBefore
    /\ WeighedTwoVertices =>
           \A a \in Revalued(last.camera[1]), b \in Revalued(last.camera[2]) :
               LET camera == [last.camera EXCEPT ![1] = a, ![2] = b]
               IN  MISWeight(last.light, camera, last.sampled, last.s, last.t)
                       = [weight |-> One, light |-> last.light, camera |-> camera]

\* C23 witness: MISWeight was called for (0, 2) on a camera subpath whose
\* second vertex has a reverse density that differs from the forward one
C23_Witness ==
    /\ WeighedTwoVertices
    /\ last.s = 0
    /\ last.t = 2
    /\ last.camera[2].pdfRev # last.camera[2].pdfFwd

\* ------------------------------------------------------------------------
\* Properties of the lazy reset after a large step
\* ------------------------------------------------------------------------

\* coordinate index of sampler s as a request finds it
Found(s, index) ==
    IF index >= Len(s.X) THEN PrimarySample ELSE s.X[index + 1]

\* the coordinate was last modified before the last accepted large step
Forgotten(s, Xi) == Xi.lastModificationIteration < s.lastLargeStepIteration

\* the request of the next coordinate of s, which leaves the sampler as
\* after: a forgotten coordinate is backed up with a fresh uniform value,
\* drawn before the one of the mutation, and with the iteration of the large
\* step; any other is backed up as found, and only the mutation draws
RequestResetsForgotten(s, after) ==
    LET index == GetNextIndex(s)
        Xi == Found(s, index)
        Xn == after.X[index + 1]
    IN  IF Forgotten(s, Xi)
        THEN /\ Xn.valueBackup = RngValue(RngAdvance(s.rng))
             /\ Xn.modifyBackup = s.lastLargeStepIteration
             /\ after.rng = RngAdvance(RngAdvance(s.rng))
        ELSE /\ Xn.valueBackup = Xi.value
             /\ Xn.modifyBackup = Xi.lastModificationIteration
             /\ after.rng = RngAdvance(s.rng)

\* a step that is a call of Get1D
Get1DResetsForgotten ==
    nCalls' = nCalls + 1 /\ lastOp' = "Get1D" =>
        RequestResetsForgotten(smp[1], smp'[1])

\* a step that is a call of Get2D, which requests two coordinates
Get2DResetsForgotten ==
    nCalls' = nCalls + 1 /\ lastOp' = "Get2D" =>
        \E mid \in {Get1D(smp[1], PrimarySample).smp} :
            /\ RequestResetsForgotten(smp[1], mid)
            /\ RequestResetsForgotten(mid, smp'[1])

\* a step that is a call of Accept: a large step, and no other, becomes the
\* last large step; no coordinate changes
AcceptRecordsLargeStep ==
    nCalls' = nCalls + 1 /\ lastOp' = "Accept" =>
        /\ smp'[1].lastLargeStepIteration =
               IF smp[1].largeStep THEN smp[1].currentIteration
               ELSE smp[1].lastLargeStepIteration
        /\ smp'[1].X = smp[1].X

\* a step that is a call of Reject: the last large step stays, and no
\* coordinate becomes forgotten
RejectForgetsNothing ==
    nCalls' = nCalls + 1 /\ lastOp' = "Reject" =>
        /\ smp'[1].lastLargeStepIteration = smp[1].lastLargeStepIteration
        /\ Len(smp'[1].X) = Len(smp[1].X)
        /\ \A i \in 1 .. Len(smp[1].X) :
               ~Forgotten(smp[1], smp[1].X[i]) => ~Forgotten(smp'[1], smp'[1].X[i])

AcceptComputed(i) == chains[i].pc \in {"proposed", "splatted"}

\* C25 as stated: in every chain, when the acceptance probability and the
\* weight of the current sample's splat are computed the current sample has
\* strictly positive luminance; a proposal of zero luminance gets accept = 0
\* and is never accepted; accept lies in [0, 1].
C25_CurrentPositiveAcceptInUnit ==
    \A i \in DOMAIN chains :
        /\ AcceptComputed(i) =>
              /\ FracLess(Zero, chains[i].LCurrent)
              /\ chains[i].LProposed = Zero => chains[i].accept = Zero
              /\ ~FracLess(chains[i].accept, Zero)
              /\ ~FracLess(One, chains[i].accept)
        /\ chains[i].pc = "idle" /\ chains[i].j > 0 /\ chains[i].accepted =>
              chains[i].LCurrent # Zero

\* ------------------------------------------------------------------------
\* Properties of the reverse densities MISWeight reads
\* ------------------------------------------------------------------------

\* what line 214 wrote to arr[idx].pdfRev when arr[idx + 1] sampled its
\* direction
WalkWrote(arr, idx) ==
    ConvertDensity(arr[idx + 1],
                   IF arr[idx + 1].delta THEN 0 ELSE DirectionPdf(arr[idx + 1].p),
                   arr[idx])

\* the vertices whose pdfRev the temporary updates of upd have overwritten
Overwritten(upd) ==
    {<<upd.scopes[k].target.arr, upd.scopes[k].target.idx>> :
        k \in {j \in DOMAIN upd.scopes : upd.scopes[j].target.field = "pdfRev"}}

\* the pdfRev the loop of MISWeight reads at arr[idx], for a subpath of n
\* vertices: overwritten for the last two, else as the walk wrote it
ReadAsWrittenOrUpdated(upd, name, arr, idx, n) ==
    IF idx >= n - 1 THEN <<name, idx>> \in Overwritten(upd)
    ELSE /\ <<name, idx>> \notin Overwritten(upd)
         /\ upd.mem[name][idx].pdfRev = WalkWrote(arr, idx)

\* the last call of MISWeight summed over the hypothetical strategies
SummedLast == WeighedLast /\ last.s + last.t > 2

\* every pdfRev read by the two loops of the last call of MISWeight
ReadsWrittenOrUpdated ==
    SummedLast =>
        \E upd \in {MISWeightUpdates(last.light, last.camera, last.sampled,
                                    last.s, last.t)} :
            /\ \A idx \in 2 .. last.t :
                   ReadAsWrittenOrUpdated(upd, "camera", last.camera, idx, last.t)
            /\ \A idx \in 1 .. last.s :
                   ReadAsWrittenOrUpdated(upd, "light", last.light, idx, last.s)

\* a step of RandomWalk changes the pdfRev of no vertex but the one before
\* the vertex it has just stored, and only if that vertex sampled a direction
WalkWritesPrevRevOnly ==
    pc \in {"camera", "light"} /\ ~walk.done /\ walk' # walk =>
        \A k \in 1 .. Len(walk.path) :
            walk'.path[k].pdfRev # walk.path[k].pdfRev =>
                /\ k = Len(walk'.path) - 1
                /\ walk'.appended
                /\ walk'.drew
                /\ ~walk'.done

DensitiesFinite(s) ==
    \A d \in DensitiesRead(LightSubpathOf(fullPath), CameraSubpathOf(fullPath),
                           SampledFor(LightSubpathOf(fullPath),
                                      CameraSubpathOf(fullPath), s,
                                      Len(fullPath) - s),
                           s, Len(fullPath) - s) :
        d >= 0 /\ d <= FloatMax

\* C27 as stated: for finite non-negative densities MISWeight returns a
\* weight w with 0 < w <= 1.
C27_WeightInUnitInterval ==
    \A s \in DOMAIN misWeights :
        DensitiesFinite(s) =>
            /\ FracLess(Zero, misWeights[s])
            /\ ~FracLess(One, misWeights[s])

\* ------------------------------------------------------------------------
\* Properties of MLTIntegrator::L
\* ------------------------------------------------------------------------

\* the number of strategies L chooses among at a depth
StrategiesAt(depth) == IF depth = 0 THEN 1 ELSE depth + 2

\* the strategy of the evaluation e is one of the depth
StrategyOfDepth(e, depth) ==
    /\ e.s >= 0
    /\ e.t >= 1
    /\ e.s + e.t - 2 = depth
    /\ depth = 0 => e.s = 0 /\ e.t = 2

\* zero unless the subpaths generated have exactly t and s vertices, else
\* what ConnectBDPT returns for them times the number of strategies
ValueOfStrategy(sc, e, depth) ==
    IF Len(e.camera) # e.t \/ Len(e.light) # e.s THEN Zero
    ELSE FracMul(ConnectBDPT(sc, e.light, e.camera, e.s, e.t, e.pRaster,
                             e.u1, e.u2).Lpath,
                 <<StrategiesAt(depth), 1>>)

\* the step in which chain i evaluates L for its proposal
ProposalAsStrategy(i) ==
    chains[i].pc = "proposing" /\ chains'[i].pc = "proposed" =>
        \E e \in {MLT_L(cfg.scene, samplers[SamplerOf(i)], chains[i].depth,
                        cfg.leftFirst)} :
            /\ chains[i].depth \in 0 .. cfg.maxDepth
            /\ StrategyOfDepth(e, chains[i].depth)
            /\ chains'[i].LProposed = ValueOfStrategy(cfg.scene, e, chains[i].depth)

\* the evaluations of the bootstrap loop, at every depth, made so far
BootstrapAsStrategy ==
    mpc = "bootstrap" =>
        \A k \in DOMAIN bootstrapWeights :
            CandidateOfEntry(k) \in bootstrapped =>
                \E e \in {MLT_L(cfg.scene, NewSampler(k - 1), DepthOfEntry(k),
                                cfg.leftFirst)} :
                    /\ StrategyOfDepth(e, DepthOfEntry(k))
                    /\ bootstrapWeights[k] =
                           ValueOfStrategy(cfg.scene, e, DepthOfEntry(k))

\* C28: for every depth in 0 .. maxDepth and every sampler state the
\* strategy L chooses has s >= 0, t >= 1 and s + t - 2 = depth, (0, 2) for
\* depth 0; L returns zero unless the camera and light subpaths generated
\* have exactly t and s vertices, and otherwise what ConnectBDPT returns
\* times the number of strategies of the depth.
C28_StrategyMatchesDepth ==
    /\ []BootstrapAsStrategy
    /\ [][\A i \in DOMAIN chains : ProposalAsStrategy(i)]_vars

\* C28 witness: the bootstrap evaluated L at the depths 0, 1 and 2, and a
\* chain of depth 1 has evaluated, in its second iteration, a proposal of
\* non-zero radiance
C28_Witness ==
    /\ cfg.maxDepth = 2
    /\ \E i \in DOMAIN chains :
           /\ chains[i].pc = "proposed"
           /\ chains[i].depth = 1
           /\ chains[i].j >= 1
           /\ chains[i].LProposed # Zero

\* ------------------------------------------------------------------------
\* Properties of the sample streams
\* ------------------------------------------------------------------------

\* the three streams started once each, in the order of L
AllStreams == <<cameraStreamIndex, lightStreamIndex, connectionStreamIndex>>

\* no coordinate requested twice by the evaluation e
RequestedOnce(e) ==
    \A a, b \in DOMAIN e.requested : a # b => e.requested[a] # e.requested[b]

\* StartStream leaves all of the sampler s but the stream index and the
\* cursor as it is
StartStreamFrame(s) ==
    \A index \in 0 .. nSampleStreams - 1 :
        /\ StartStream(s, index).streamIndex = index
        /\ StartStream(s, index).sampleIndex = 0
        /\ [StartStream(s, index) EXCEPT !.streamIndex = s.streamIndex,
                                         !.sampleIndex = s.sampleIndex] = s

\* the evaluation of L that chain i is about to make for its proposal
ProposalOf(i) ==
    MLT_L(cfg.scene, samplers[SamplerOf(i)], chains[i].depth, cfg.leftFirst)

\* C29 as stated: within one evaluation of L each of the three streams is
\* started exactly once, no coordinate is requested twice, and StartStream
\* changes only the stream index and the cursor.
C29_EachStreamStartedOnce ==
    \A i \in DOMAIN chains :
        chains[i].pc = "proposing" =>
            \E e \in {ProposalOf(i)} :
                /\ e.streams = AllStreams
                /\ RequestedOnce(e)
                /\ StartStreamFrame(samplers[SamplerOf(i)])

\* C29 amended: the camera stream is started exactly once; the light stream
\* exactly once if the camera subpath has t vertices and the connection
\* stream exactly once if in addition the light subpath has s vertices, and
\* otherwise not at all; no coordinate is requested twice, and StartStream
\* changes only the stream index and the cursor.
C29_StreamsStartedUntilReturn ==
    \A i \in DOMAIN chains :
        chains[i].pc = "proposing" =>
            \E e \in {ProposalOf(i)} :
                /\ e.streams =
                       IF Len(e.camera) # e.t THEN SubSeq(AllStreams, 1, 1)
                       ELSE IF Len(e.light) # e.s THEN SubSeq(AllStreams, 1, 2)
                       ELSE AllStreams
                /\ RequestedOnce(e)
                /\ StartStreamFrame(samplers[SamplerOf(i)])

\* C29 witness: a chain is about to evaluate, in a later iteration, a
\* proposal that starts the three streams and requests coordinates of each
C29_Witness ==
    \E i \in DOMAIN chains :
        /\ chains[i].pc = "proposing"
        /\ chains[i].j >= 1
        /\ \E e \in {ProposalOf(i)} :
              /\ e.streams = AllStreams
              /\ \A k \in 0 .. nSampleStreams - 1 :
                     \E a \in DOMAIN e.requested : e.requested[a] % nSampleStreams = k

\* ------------------------------------------------------------------------
\* Properties of the bootstrap's progress reports
\* ------------------------------------------------------------------------

\* progress.Update() has been called
Updated == \E k \in DOMAIN slog : slog[k][1] = "Update"

\* the entries the loop has written are those of the candidates done,
\* whatever the progress condition
WeightsOfCandidates ==
    /\ Len(bootstrapWeights) = Cardinality(bootstrapped) * (cfg.maxDepth + 1)
    /\ \A k \in DOMAIN bootstrapWeights :
           bootstrapWeights[k] = CandidateLuminance(k - 1)

\* C30: the condition as written, (i + 1 % 256) == 0, is false for every
\* candidate index in [0, nBootstrap), so progress.Update is never called in
\* the bootstrap loop, and bootstrapWeights are what they would be with the
\* condition ((i + 1) % 256) == 0.
C30_NoBootstrapProgress ==
    /\ ~Updated
    /\ \A i \in bootstrapped : ~ProgressDue(i)
    /\ WeightsOfCandidates

\* C30 witness: the loop has ended having passed candidates at which the
\* parenthesised condition holds
C30_Witness ==
    /\ mpc = "chains"
    /\ cfg.nBootstrap = MaxBootstrap
    /\ \E i, j \in bootstrapped :
           i # j /\ ProgressDueEvery(i) /\ ProgressDueEvery(j)
    /\ slog = << <<"Done", cfg.nBootstrap>> >>



\* ------------------------------------------------------------------------
\* C31: the span of a small step
\* ------------------------------------------------------------------------

\* the last accepted iteration that requested the coordinate, 0 if none did
LastRequested(index) ==
    LET ks == {k \in 1..Len(accepted) : index \in accepted[k].requested}
    IN  IF ks = {} THEN 0 ELSE CHOOSE k \in ks : \A j \in ks : j <= k

\* the last accepted iteration that was a large step, 0 if none was
LastAcceptedLargeStep ==
    LET ks == {k \in 1..Len(accepted) : accepted[k].largeStep}
    IN  IF ks = {} THEN 0 ELSE CHOOSE k \in ks : \A j \in ks : j <= k

\* the iterations accepted since the coordinate was last modified or, if a
\* large step was accepted after that, since that large step
AcceptedSince(index) ==
    IF LastRequested(index) < LastAcceptedLargeStep
    THEN Len(accepted) - LastAcceptedLargeStep
    ELSE Len(accepted) - LastRequested(index)

\* a step that requests a coordinate for the first time in a small-step
\* iteration
FirstSmallRequest ==
    /\ phase = "proposing"
    /\ lastOp' = "Get1D"
    /\ ~smp[1].largeStep
    /\ GetNextIndex(smp[1]) \notin DOMAIN touches

\* nSmall as that step computed it: currentIteration less the
\* lastModificationIteration that Backup had just saved
NSmallOf(index) ==
    smp'[1].currentIteration - smp'[1].X[index + 1].modifyBackup

SmallSpanCounts(index) ==
    /\ 1 <= NSmallOf(index)
    /\ NSmallOf(index) <= smp'[1].currentIteration
    /\ NSmallOf(index) = 1 + AcceptedSince(index)

\* C31 as stated: at the first request of a coordinate in a small-step
\* iteration, 1 <= nSmall <= currentIteration and nSmall is one plus the
\* number of iterations accepted since the coordinate was last modified (or
\* since the last accepted large step, if it was forgotten)
C31_SmallSpanAlways ==
    [][FirstSmallRequest => SmallSpanCounts(GetNextIndex(smp[1]))]_vars

\* C31, amended: the same, in runs where no iteration has requested a
\* coordinate twice
C31_SmallSpanRequestedOnce ==
    [][(FirstSmallRequest /\ ~twice) => SmallSpanCounts(GetNextIndex(smp[1]))]_vars

\* a coordinate modified in an accepted iteration, with another iteration
\* accepted since, has just been requested for the first time in a small step
C31_Witness ==
    /\ lastOp = "Get1D"
    /\ phase = "proposing"
    /\ ~smp[1].largeStep
    /\ ~twice
    /\ \E index \in DOMAIN touches :
          /\ touches[index] = 1
          /\ LastRequested(index) >= 1
          /\ AcceptedSince(index) >= 1
          /\ smp[1].X[index + 1].modifyBackup = LastRequested(index)


\* ------------------------------------------------------------------------
\* C32: the counters between iterations
\* ------------------------------------------------------------------------
BetweenIterations == phase \in {"initial", "idle"}

CountersConsistent(s) ==
    /\ s.currentIteration = Len(accepted)
    /\ 0 <= s.lastLargeStepIteration
    /\ s.lastLargeStepIteration <= s.currentIteration
    /\ \A i \in 1..Len(s.X) :
          s.X[i].lastModificationIteration <= s.currentIteration

\* C32: between iterations, when no iteration requested a coordinate twice,
\* currentIteration is the number of accepted proposals,
\* 0 <= lastLargeStepIteration <= currentIteration and no coordinate has
\* lastModificationIteration > currentIteration
C32_CountersBetweenIterations ==
    (BetweenIterations /\ ~twice) => CountersConsistent(smp[1])

\* an accepted and then a rejected iteration, both having requested a
\* coordinate, with a large step accepted
C32_Witness ==
    /\ phase = "idle"
    /\ lastOp = "Reject"
    /\ ~twice
    /\ Len(accepted) >= 1
    /\ accepted[1].requested # {}
    /\ DOMAIN touches # {}
    /\ smp[1].lastLargeStepIteration >= 1


\* ------------------------------------------------------------------------
\* C33: a reset survives the rejection of its iteration
\* ------------------------------------------------------------------------
RejectStep == phase = "proposing" /\ lastOp' = "Reject"

\* after the step the coordinate holds what the reset drew for it, dated
\* with the last accepted large step
HoldsRedrawn(index) ==
    /\ smp'[1].X[index + 1].value = snap[index].drawn
    /\ smp'[1].X[index + 1].lastModificationIteration
          = smp'[1].lastLargeStepIteration
    /\ smp'[1].lastLargeStepIteration = smp[1].lastLargeStepIteration

IsStale(s, i) == s.X[i].lastModificationIteration < s.lastLargeStepIteration

\* a coordinate that is not stale becomes stale only when a large step is
\* accepted
StaleOnlyByLargeStep ==
    \A i \in 1..Len(smp[1].X) :
       (~IsStale(smp[1], i) /\ IsStale(smp'[1], i))
          => (lastOp' = "Accept" /\ smp[1].largeStep)

\* C33 as stated: Reject leaves every coordinate that the rejected iteration
\* found stale with the value the reset drew and lastModificationIteration =
\* lastLargeStepIteration
C33_RejectKeepsReset ==
    [][RejectStep => \A index \in DOMAIN touches :
                        snap[index].stale => HoldsRedrawn(index)]_vars

\* C33, amended: the same for the coordinates the rejected iteration
\* requested exactly once; and a coordinate that is not stale becomes stale
\* only by the acceptance of a large step, so it is reset at most once per
\* accepted large step
C33_RejectKeepsResetRequestedOnce ==
    [][/\ RejectStep => \A index \in DOMAIN touches :
                           (snap[index].stale /\ touches[index] = 1)
                              => HoldsRedrawn(index)
       /\ StaleOnlyByLargeStep]_vars

\* a coordinate modified before an accepted large step was requested once in
\* an iteration that has just been rejected
C33_Witness ==
    /\ lastOp = "Reject"
    /\ \E index \in DOMAIN touches :
          /\ touches[index] = 1
          /\ snap[index].stale
          /\ ~snap[index].fresh
          /\ smp[1].X[index + 1].value = snap[index].drawn
          /\ smp[1].X[index + 1].valueBackup = snap[index].drawn
          /\ smp[1].X[index + 1].lastModificationIteration
                = smp[1].lastLargeStepIteration


\* ------------------------------------------------------------------------
\* C34: the strategies handed to ConnectBDPT stay within the subpaths
\* ------------------------------------------------------------------------

\* the camera vertices (numbered from 1) that ConnectBDPT and MISWeight read
\* or dereference for the strategy (s, t): cameraVertices[t - 1] always,
\* cameraVertices[t - 2] as *ptMinus when s = 0 and as ptMinus when t > 1
CameraAccessed(s, t) ==
    {t} \cup (IF s = 0 \/ t > 1 THEN {t - 1} ELSE {})

\* the light vertices they read: lightVertices[s - 1] when s > 0,
\* lightVertices[s - 2] when s > 1
LightAccessed(s, t) ==
    (IF s > 0 THEN {s} ELSE {}) \cup (IF s > 1 THEN {s - 1} ELSE {})

\* the strategy (s, t) applied to subpaths of nl and nc generated vertices
\* held in the arrays light and camera
WithinSubpaths(s, t, light, nl, camera, nc) ==
    /\ t >= 1
    /\ s = 0 => t >= 2
    /\ s >= 0 /\ s <= nl
    /\ t <= nc
    /\ \A i \in CameraAccessed(s, t) :
          i \in 1 .. nc /\ i <= Len(camera) /\ Deref(camera, i) # NoVertex
    /\ \A i \in LightAccessed(s, t) :
          i \in 1 .. nl /\ i <= Len(light) /\ Deref(light, i) # NoVertex

LWithinSubpaths(e) ==
    (\E k \in DOMAIN e.streams : e.streams[k] = connectionStreamIndex) =>
        WithinSubpaths(e.s, e.t, e.light, Len(e.light), e.camera, Len(e.camera))

LStrategiesWithinSubpaths ==
    /\ [](mpc = "bootstrap" =>
            \A k \in DOMAIN bootstrapWeights :
                CandidateOfEntry(k) \in bootstrapped =>
                    LWithinSubpaths(MLT_L(cfg.scene, NewSampler(k - 1),
                                          DepthOfEntry(k), cfg.leftFirst)))
    /\ [][\A i \in DOMAIN chains :
            (chains[i].pc = "proposing" /\ chains'[i].pc = "proposed")
                => LWithinSubpaths(ProposalOf(i))]_vars

FilmStrategies ==
    {p \in (0 .. maxDepth + 2) \X (0 .. maxDepth + 2) :
        p[1] + p[2] - 2 >= 0 /\ p[1] + p[2] - 2 <= maxDepth}

\* C35: BufferIndex maps the strategies with s >= 0, t >= 0 and
\* 0 <= s + t - 2 <= maxDepth injectively into [0, bufferCount), with
\* bufferCount = (1 + maxDepth)(6 + maxDepth) / 2, and every strategy Render
\* evaluates while visualization is on indexes an entry of weightFilms
\* that holds a film (the one allocated for that strategy)
C35_DebugFilmsAllocated ==
    /\ 2 * bufferCount = (1 + maxDepth) * (6 + maxDepth)
    /\ \A p \in FilmStrategies :
          BufferIndex(p[1], p[2]) >= 0 /\ BufferIndex(p[1], p[2]) < bufferCount
    /\ \A p, q \in FilmStrategies :
          BufferIndex(p[1], p[2]) = BufferIndex(q[1], q[2]) => p = q
    /\ \A i \in DOMAIN weightFilms : i >= 0 /\ i < bufferCount
    /\ \A u \in filmUses :
          /\ u.index >= 0 /\ u.index < bufferCount
          /\ u.film # NoFilm
          /\ u.film = <<u.s + u.t - 2, u.s, u.t>>

\* with both visualizations on and maxDepth 2 or more, a sample whose
\* subpaths are as long as they can be has been connected: the films of
\* (0, 2), of (0, maxDepth + 2) and of a strategy with s, t >= 2 were used
C35_Witness ==
    /\ pc = "done"
    /\ maxDepth >= 2
    /\ visualize.strategies /\ visualize.weights
    /\ nCamera = maxDepth + 2
    /\ nLight = maxDepth + 1
    /\ \E u \in filmUses : u.s = 0 /\ u.t = 2 /\ u.index = 0
    /\ \E u \in filmUses : u.s = 0 /\ u.t = maxDepth + 2
    /\ \E u \in filmUses : u.s >= 2 /\ u.t >= 2
    /\ \E u \in filmUses : u.s = maxDepth + 1 /\ u.t = 1 /\ u.index = bufferCount - 2

====
